---- MODULE Spec2Model ----
(***************************************************************************)
(* canon-weaver: the branching conversation tree (src/lib/llm/chatTree.ts) *)
(* and the chat store that drives it (src/stores/slices/createChatSlice.ts)*)
(*                                                                         *)
(* Spec       the pure tree operations applied in any order to the tree    *)
(*            made by createEmptyTree.                                     *)
(* StoreSpec  the store actions sendMessage / regenerate / editMessage /   *)
(*            navigateBranch; every await of a generation request is a     *)
(*            separate step, so requests may be in flight while other      *)
(*            actions run.  FairStoreSpec adds that every request ends.    *)
(* PatchSpec  applyStatePatch (src/lib/llm/stateManager.ts) applied to a   *)
(*            world state, patch after patch.                              *)
(* SessionSpec, RaceSpec  the store in the middle of a session, with one   *)
(*            and with two requests in flight.                             *)
(* SwitchSpec the store with loadSession and saveSession                   *)
(*            (src/stores/slices/createSessionSlice.ts).                   *)
(* ChronicleSpec  the store with the chronicle events of the answers and   *)
(*            wrapUpChapter.                                               *)
(*                                                                         *)
(* Node ids are UUIDs in the code (crypto.randomUUID); here the k-th id    *)
(* handed out is the number k, and idCount is the number of ids handed out *)
(* so far.  createdAt (a wall-clock timestamp) is not modelled.            *)
(***************************************************************************)
EXTENDS Integers, Sequences, FiniteSets, TLC

VARIABLES tree, idCount, err, isGenerating, pending,
          worldState, prevWorldState, lastPatch, applied,
          currentSessionId, saved, loads, chronicle, wraps

\* the store and its tree
treeVars == <<tree, idCount, err, isGenerating, pending>>
\* a world state, the patch that was merged into it last, the state it was
\* merged into, and the number of patches merged so far
patchVars == <<worldState, prevWorldState, lastPatch, applied>>

\* the session that is open, the session files of the server, and the
\* loadSession calls whose fetch is in flight
sessionVars == <<currentSessionId, saved, loads>>
\* the chronicle of the store and the wrapUpChapter calls whose fetch is in
\* flight
chronicleVars == <<chronicle, wraps>>

vars == <<treeVars, patchVars, sessionVars, chronicleVars>>

----------------------------------------------------------------------------
(* Bounds *)

MaxNodes == 4
MaxPending == 1
\* the number of patches merged one after the other
MaxPatches == 2

----------------------------------------------------------------------------
(* Values *)

\* `undefined` for an optional ChatNodeId (parentId of the root, a missing
\* activeChildByParent entry)
NoId == 0
\* a well-formed id that no makeId() call ever returned
UnknownId == -1
\* `undefined` for the optional state of a node
NoState == [undefined |-> TRUE]
\* `undefined` for the optional statePatch of a reply
NoPatch == [undefined |-> TRUE]

NodeIds == 1..MaxNodes

TextPart(t) == <<[kind |-> "text", text |-> t]>>

\* the texts a user types, the parts a reply or an edit carries
Texts == {"a"}
PartsArgs == {<<[kind |-> "thought", thought |-> "t"], [kind |-> "text", text |-> "b"]>>}

DEFAULT_SYSTEM_PROMPT == "You are a creative roleplay partner."

\* A JS object is a record; a field that is absent from the object is absent
\* from the DOMAIN of the record.  An array is a sequence.
\* The WorldState that stateManager.ts is written against is the one whose
\* schema exports EntityState, QuestState and ThreadState: player is a field
\* and entities is an array.
DEFAULT_WORLD_STATE ==
    [scene |-> [location |-> [name |-> "Unknown"], time |-> "Start of Adventure"],
     player |-> [name |-> "Player",
                 location |-> [name |-> "Unknown"],
                 condition |-> "Healthy",
                 inventory |-> << >>,
                 capabilities |-> << >>,
                 attributes |-> << >>],
     entities |-> << >>,
     quests |-> << >>,
     threads |-> << >>,
     facts |-> << >>,
     hypotheses |-> << >>,
     secrets |-> << >>]
StateArgs == {NoState, DEFAULT_WORLD_STATE}

Ok(t) == [ok |-> TRUE, tree |-> t]
Throw == [ok |-> FALSE]

\* Array.prototype.includes
Includes(list, item) == \E i \in DOMAIN list : list[i] = item

----------------------------------------------------------------------------
(* chatTree.ts *)

pushUnique(arr, item) ==
    IF \E i \in DOMAIN arr : arr[i] = item THEN arr ELSE Append(arr, item)

getChildren(t, parentId) ==
    IF parentId \in DOMAIN t.children THEN t.children[parentId] ELSE <<>>

\* mutant: the child list of the parent is not updated
setNewChild_forgetsChild(t, parentId, childNode) == t

setNewChild(t, parentId, childNode) ==
    LET nextChildren == pushUnique(getChildren(t, parentId), childNode.id)
    IN  [t EXCEPT !.children = (parentId :> nextChildren) @@ t.children]

createEmptyTree(rootId, startingSystemPrompt, initialState) ==
    LET root == [id |-> rootId, relation |-> "initiate", role |-> "system",
                 parts |-> TextPart(startingSystemPrompt), parentId |-> NoId,
                 state |-> initialState]
    IN  [rootId |-> rootId, headId |-> rootId,
         nodes |-> (rootId :> root),
         children |-> << >>,
         activeChildByParent |-> << >>]

\* mutant: the new node records the head, not args.parentId, as its parent
addChildAndAutoActivate_parentIsHead(t, args, childId) ==
    IF args.parentId \notin DOMAIN t.nodes
    THEN Throw
    ELSE LET childNode == [id |-> childId, relation |-> args.relation,
                           role |-> args.role, parts |-> args.parts,
                           parentId |-> t.headId, state |-> args.state]
             treeWithChildren == setNewChild(t, args.parentId, childNode)
         IN  Ok([treeWithChildren EXCEPT
                   !.activeChildByParent =
                        (args.parentId :> childId) @@ treeWithChildren.activeChildByParent,
                   !.nodes = (childId :> childNode) @@ treeWithChildren.nodes,
                   !.headId = childId])

\* mutant: headId is left where it was
addChildAndAutoActivate_keepsHead(t, args, childId) ==
    IF args.parentId \notin DOMAIN t.nodes
    THEN Throw
    ELSE LET childNode == [id |-> childId, relation |-> args.relation,
                           role |-> args.role, parts |-> args.parts,
                           parentId |-> args.parentId, state |-> args.state]
             treeWithChildren == setNewChild(t, args.parentId, childNode)
         IN  Ok([treeWithChildren EXCEPT
                   !.activeChildByParent =
                        (args.parentId :> childId) @@ treeWithChildren.activeChildByParent,
                   !.nodes = (childId :> childNode) @@ treeWithChildren.nodes])

\* mutant: the parent is not looked up before the child is added
addChildAndAutoActivate_noParentCheck(t, args, childId) ==
    LET childNode == [id |-> childId, relation |-> args.relation,
                      role |-> args.role, parts |-> args.parts,
                      parentId |-> args.parentId, state |-> args.state]
        treeWithChildren == setNewChild(t, args.parentId, childNode)
    IN  Ok([treeWithChildren EXCEPT
              !.activeChildByParent =
                   (args.parentId :> childId) @@ treeWithChildren.activeChildByParent,
              !.nodes = (childId :> childNode) @@ treeWithChildren.nodes,
              !.headId = childId])

\* mutant: the new child is listed and becomes the head, but it is not made
\* the active child of its parent
addChildAndAutoActivate_notActivated(t, args, childId) ==
    IF args.parentId \notin DOMAIN t.nodes
    THEN Throw
    ELSE LET childNode == [id |-> childId, relation |-> args.relation,
                           role |-> args.role, parts |-> args.parts,
                           parentId |-> args.parentId, state |-> args.state]
             treeWithChildren == setNewChild(t, args.parentId, childNode)
         IN  Ok([treeWithChildren EXCEPT
                   !.nodes = (childId :> childNode) @@ treeWithChildren.nodes,
                   !.headId = childId])

\* args = [parentId, relation, role, parts, state]; childId is the result of makeId()
addChildAndAutoActivate(t, args, childId) ==
    IF args.parentId \notin DOMAIN t.nodes
    THEN Throw
    ELSE LET childNode == [id |-> childId, relation |-> args.relation,
                           role |-> args.role, parts |-> args.parts,
                           parentId |-> args.parentId, state |-> args.state]
             treeWithChildren == setNewChild(t, args.parentId, childNode)
         IN  Ok([treeWithChildren EXCEPT
                   !.activeChildByParent =
                        (args.parentId :> childId) @@ treeWithChildren.activeChildByParent,
                   !.nodes = (childId :> childNode) @@ treeWithChildren.nodes,
                   !.headId = childId])

appendUser(t, text, childId) ==
    addChildAndAutoActivate(t,
        [parentId |-> t.headId, relation |-> "reply", role |-> "user",
         parts |-> TextPart(text), state |-> NoState], childId)

replyAssistant(t, parentUserId, parts, state, childId) ==
    addChildAndAutoActivate(t,
        [parentId |-> parentUserId, relation |-> "reply", role |-> "assistant",
         parts |-> parts, state |-> state], childId)

\* mutant: the new node is added under the target instead of beside it
regenerateAssistant_underTarget(t, regenerateTargetNodeId, parts, state, childId) ==
    IF regenerateTargetNodeId \notin DOMAIN t.nodes THEN Throw
    ELSE IF t.nodes[regenerateTargetNodeId].parentId = NoId THEN Throw
    ELSE addChildAndAutoActivate(t,
            [parentId |-> regenerateTargetNodeId,
             relation |-> "regenerate", role |-> "assistant",
             parts |-> parts, state |-> state], childId)

\* tree.nodes[id].parentId on an id that is not in nodes is a TypeError
regenerateAssistant(t, regenerateTargetNodeId, parts, state, childId) ==
    IF regenerateTargetNodeId \notin DOMAIN t.nodes THEN Throw
    ELSE IF t.nodes[regenerateTargetNodeId].parentId = NoId THEN Throw
    ELSE addChildAndAutoActivate(t,
            [parentId |-> t.nodes[regenerateTargetNodeId].parentId,
             relation |-> "regenerate", role |-> "assistant",
             parts |-> parts, state |-> state], childId)

\* mutant: the rewritten node is always a user node
rewriteNode_asUser(t, rewriteTargetNodeId, parts, childId) ==
    IF rewriteTargetNodeId \notin DOMAIN t.nodes THEN Throw
    ELSE IF t.nodes[rewriteTargetNodeId].parentId = NoId THEN Throw
    ELSE addChildAndAutoActivate(t,
            [parentId |-> t.nodes[rewriteTargetNodeId].parentId,
             relation |-> "rewrite", role |-> "user",
             parts |-> parts, state |-> NoState], childId)

rewriteNode(t, rewriteTargetNodeId, parts, childId) ==
    IF rewriteTargetNodeId \notin DOMAIN t.nodes THEN Throw
    ELSE IF t.nodes[rewriteTargetNodeId].parentId = NoId THEN Throw
    ELSE addChildAndAutoActivate(t,
            [parentId |-> t.nodes[rewriteTargetNodeId].parentId,
             relation |-> "rewrite", role |-> t.nodes[rewriteTargetNodeId].role,
             parts |-> parts, state |-> NoState], childId)

\* ids.map(id => tree.nodes[id]).filter(Boolean): the ids without a node are
\* dropped, the others are replaced by their node, order kept
getAlternatives(t, parentId) ==
    LET ids == SelectSeq(getChildren(t, parentId), LAMBDA id : id \in DOMAIN t.nodes)
    IN  [i \in DOMAIN ids |-> t.nodes[ids[i]]]

activeChildOf(t, nodeId) ==
    IF nodeId \in DOMAIN t.activeChildByParent
    THEN t.activeChildByParent[nodeId] ELSE NoId

\* while (true) { if (!active[nodeId]) break; nodeId = active[nodeId] }
\* fuel bounds the unfolding: a chain without a cycle visits every key of
\* activeChildByParent at most once.
RECURSIVE recalcWalk(_, _, _)
recalcWalk(t, nodeId, fuel) ==
    IF activeChildOf(t, nodeId) = NoId \/ fuel = 0 THEN nodeId
    ELSE recalcWalk(t, activeChildOf(t, nodeId), fuel - 1)

\* mutant: the walk stops at the active child of the root
recalculateHeadId_oneStep(t) ==
    [t EXCEPT !.headId = recalcWalk(t, t.rootId, 1)]

recalculateHeadId(t) ==
    [t EXCEPT !.headId = recalcWalk(t, t.rootId, Cardinality(DOMAIN t.activeChildByParent) + 1)]

\* the while (true) loop reaches its break: the walk ends on a node without
\* an active child before it has followed more links than the mapping has
\* keys (a walk that follows more links than that is inside a cycle and
\* never leaves it)
recalculateHeadIdTerminates(t) ==
    activeChildOf(t, recalcWalk(t, t.rootId, Cardinality(DOMAIN t.activeChildByParent) + 1)) = NoId

\* mutant: the selected child is moved to the end of its parent's child list
setActive_reorders(t, targetNodeId, moveHead) ==
    IF targetNodeId \notin DOMAIN t.nodes THEN Throw
    ELSE IF t.nodes[targetNodeId].parentId = NoId THEN Throw
    ELSE LET parentId == t.nodes[targetNodeId].parentId
             kids == getChildren(t, parentId)
         IN  IF ~(\E i \in DOMAIN kids : kids[i] = targetNodeId) THEN Throw
             ELSE LET next == [t EXCEPT
                                 !.activeChildByParent =
                                     (parentId :> targetNodeId) @@ t.activeChildByParent,
                                 !.children =
                                     (parentId :> Append(SelectSeq(kids, LAMBDA k : k # targetNodeId),
                                                         targetNodeId)) @@ t.children]
                  IN  IF moveHead # "false"
                      THEN Ok([next EXCEPT !.headId = targetNodeId])
                      ELSE Ok(recalculateHeadId(next))

\* mutant: moveHead is ignored, the head always moves to the target
setActive_alwaysMovesHead(t, targetNodeId, moveHead) ==
    IF targetNodeId \notin DOMAIN t.nodes THEN Throw
    ELSE IF t.nodes[targetNodeId].parentId = NoId THEN Throw
    ELSE LET parentId == t.nodes[targetNodeId].parentId
             kids == getChildren(t, parentId)
         IN  IF ~(\E i \in DOMAIN kids : kids[i] = targetNodeId) THEN Throw
             ELSE LET next == [t EXCEPT !.activeChildByParent =
                                  (parentId :> targetNodeId) @@ t.activeChildByParent]
                  IN  Ok([next EXCEPT !.headId = targetNodeId])

\* moveHead is "true", "false" or "omitted" (opts.moveHead ?? true)
setActive(t, targetNodeId, moveHead) ==
    IF targetNodeId \notin DOMAIN t.nodes THEN Throw
    ELSE IF t.nodes[targetNodeId].parentId = NoId THEN Throw
    ELSE LET parentId == t.nodes[targetNodeId].parentId
             kids == getChildren(t, parentId)
         IN  IF ~(\E i \in DOMAIN kids : kids[i] = targetNodeId) THEN Throw
             ELSE LET next == [t EXCEPT !.activeChildByParent =
                                  (parentId :> targetNodeId) @@ t.activeChildByParent]
                  IN  IF moveHead # "false"
                      THEN Ok([next EXCEPT !.headId = targetNodeId])
                      ELSE Ok(recalculateHeadId(next))

\* mutant: moving the head also forgets which branches were selected
setHead_resetsActive(t, headId) ==
    [t EXCEPT !.headId = headId, !.activeChildByParent = << >>]

setHead(t, headId) == [t EXCEPT !.headId = headId]

Reverse(s) == [i \in 1..Len(s) |-> s[Len(s) + 1 - i]]

\* the while loop of getPathNodesFromHead; out is in head-first order
RECURSIVE headWalk(_, _, _, _, _)
headWalk(t, curId, out, limit, stopAtRoot) ==
    IF curId = NoId \/ Len(out) >= limit THEN out
    ELSE IF curId \notin DOMAIN t.nodes THEN out
    ELSE LET pushed == Append(out, t.nodes[curId])
         IN  IF stopAtRoot /\ curId = t.rootId THEN pushed
             ELSE headWalk(t, t.nodes[curId].parentId, pushed, limit, stopAtRoot)

\* mutant: the collected nodes are returned head first
getPathNodesFromHead_notReversed(t, limit, stopAtRoot) ==
    headWalk(t, t.headId, <<>>, limit, stopAtRoot)

getPathNodesFromHead(t, limit, stopAtRoot) ==
    Reverse(headWalk(t, t.headId, <<>>, limit, stopAtRoot))

\* mutant: the loop test is i <= limit
RECURSIVE activeWalk_offByOne(_, _, _, _, _)
activeWalk_offByOne(t, curId, out, i, limit) ==
    IF i > limit THEN out
    ELSE IF curId \notin DOMAIN t.nodes THEN out
    ELSE LET pushed == Append(out, t.nodes[curId])
             nextId == activeChildOf(t, curId)
         IN  IF nextId = NoId THEN pushed
             ELSE activeWalk_offByOne(t, nextId, pushed, i + 1, limit)

\* the for loop of getActivePathNodes, i iterations done
RECURSIVE activeWalk(_, _, _, _, _)
activeWalk(t, curId, out, i, limit) ==
    IF i >= limit THEN out
    ELSE IF curId \notin DOMAIN t.nodes THEN out
    ELSE LET pushed == Append(out, t.nodes[curId])
             nextId == activeChildOf(t, curId)
         IN  IF nextId = NoId THEN pushed
             ELSE activeWalk(t, nextId, pushed, i + 1, limit)

getActivePathNodes(t, limit) == activeWalk(t, t.rootId, <<>>, 0, limit)

getHeadNode(t) ==
    IF t.headId \in DOMAIN t.nodes THEN [ok |-> TRUE, node |-> t.nodes[t.headId]] ELSE Throw

----------------------------------------------------------------------------
(* Spec: the tree operations, called by an arbitrary caller *)

\* currentSessionId: null
NoSession == "null"

SessionIds == {"A", "B"}

\* the root of a session's tree gets its id in createSession, before the
\* store hands out its first node id
RootIdOf(sessionId) == IF sessionId = "A" THEN -2 ELSE -3

\* the chronicle a session starts with (chronicle: undefined), and what
\* get().chronicle || { events: [], chapters: [] } makes of it
NoChronicle == [undefined |-> TRUE]

EmptyChronicle == [events |-> << >>, chapters |-> << >>]

\* createSession: the session files as they are posted to the server
ServerSessions ==
    [sessionId \in SessionIds |->
        [tree |-> createEmptyTree(RootIdOf(sessionId), DEFAULT_SYSTEM_PROMPT, NoState),
         chronicle |-> NoChronicle]]

\* no session is open, nothing is being loaded or wrapped up
NoSessionOpen ==
    /\ currentSessionId = NoSession
    /\ saved = ServerSessions
    /\ loads = {}
    /\ chronicle = NoChronicle
    /\ wraps = << >>

Init ==
    /\ tree = createEmptyTree(1, DEFAULT_SYSTEM_PROMPT, NoState)
    /\ idCount = 1
    /\ err = FALSE
    /\ isGenerating = FALSE
    /\ pending = << >>
    /\ worldState = DEFAULT_WORLD_STATE
    /\ prevWorldState = DEFAULT_WORLD_STATE
    /\ lastPatch = NoPatch
    /\ applied = 0
    /\ NoSessionOpen

\* the ids a caller can pass: those of the tree, and one that is in no tree
CallIds == DOMAIN tree.nodes \cup {UnknownId}

\* the outcome r of one call of operation op: a thrown error aborts the call
\* and the caller keeps the tree it had
Commit(r) ==
    /\ IF r.ok
       THEN tree' = r.tree /\ idCount' = idCount + 1 /\ err' = FALSE
       ELSE tree' = tree /\ idCount' = idCount /\ err' = TRUE
    /\ UNCHANGED <<isGenerating, pending, patchVars, sessionVars, chronicleVars>>

AddChild ==
    \E parentId \in CallIds, relation \in {"reply"}, role \in {"user"},
       parts \in {TextPart(text) : text \in Texts}, state \in {NoState} :
        LET args == [parentId |-> parentId, relation |-> relation, role |-> role,
                     parts |-> parts, state |-> state]
            r == addChildAndAutoActivate(tree, args, idCount + 1)
        IN  /\ idCount < MaxNodes
            /\ Commit(r)

AppendUser ==
    \E text \in Texts :
        LET r == appendUser(tree, text, idCount + 1)
        IN  /\ idCount < MaxNodes
            /\ Commit(r)

ReplyAssistant ==
    \E parentUserId \in CallIds, parts \in PartsArgs, state \in {DEFAULT_WORLD_STATE} :
        LET r == replyAssistant(tree, parentUserId, parts, state, idCount + 1)
        IN  /\ idCount < MaxNodes
            /\ Commit(r)

RegenerateAssistant ==
    \E target \in CallIds, parts \in PartsArgs, state \in StateArgs :
        LET r == regenerateAssistant(tree, target, parts, state, idCount + 1)
        IN  /\ idCount < MaxNodes
            /\ Commit(r)

RewriteNode ==
    \E target \in CallIds, parts \in PartsArgs :
        LET r == rewriteNode(tree, target, parts, idCount + 1)
        IN  /\ idCount < MaxNodes
            /\ Commit(r)

SetActive ==
    \E target \in CallIds, moveHead \in {"true", "false", "omitted"} :
        LET r == setActive(tree, target, moveHead)
        IN  /\ IF r.ok THEN tree' = r.tree /\ err' = FALSE
                       ELSE tree' = tree /\ err' = TRUE
            /\ UNCHANGED <<idCount, isGenerating, pending, patchVars, sessionVars, chronicleVars>>

SetHead ==
    \E headId \in CallIds :
        /\ tree' = setHead(tree, headId)
        /\ err' = FALSE
        /\ UNCHANGED <<idCount, isGenerating, pending, patchVars, sessionVars, chronicleVars>>

Next ==
    \/ AppendUser
    \/ AddChild
    \/ ReplyAssistant
    \/ RegenerateAssistant
    \/ RewriteNode
    \/ SetActive
    \/ SetHead

Spec == Init /\ [][Next]_vars

----------------------------------------------------------------------------
(* stateManager.ts *)

\* a string field that is present and not empty: the JS test `rec.field`
Truthy(rec, field) == field \in DOMAIN rec /\ rec[field] # ""

\* {...a, ...b}; << >> is the object without fields
Spread(a, b) ==
    [k \in DOMAIN a \cup DOMAIN b |-> IF k \in DOMAIN b THEN b[k] ELSE a[k]]

\* rec.field, or {} where the code spreads a value that may be undefined
FieldOrEmpty(rec, field) == IF field \in DOMAIN rec THEN rec[field] ELSE << >>

\* a JS Set is the list of its members in insertion order
SetAdd(set, item) == IF Includes(set, item) THEN set ELSE Append(set, item)

RECURSIVE SetAddAll(_, _)
SetAddAll(set, items) ==
    IF Len(items) = 0 THEN set
    ELSE SetAddAll(SetAdd(set, Head(items)), Tail(items))

SetDeleteAll(set, items) == SelectSeq(set, LAMBDA member : ~Includes(items, member))

\* mutant: the items of add are added before the items of remove are deleted
mergeSet_addFirst(list, change) ==
    LET current == SetAddAll(<< >>, list)
        added == IF "add" \in DOMAIN change THEN SetAddAll(current, change.add) ELSE current
    IN  IF "remove" \in DOMAIN change THEN SetDeleteAll(added, change.remove) ELSE added

\* const current = new Set(list); change.remove?.forEach(delete);
\* change.add?.forEach(add); Array.from(current)
mergeSet(list, change) ==
    LET current == SetAddAll(<< >>, list)
        removed == IF "remove" \in DOMAIN change
                   THEN SetDeleteAll(current, change.remove) ELSE current
    IN  IF "add" \in DOMAIN change THEN SetAddAll(removed, change.add) ELSE removed

\* mutant: the attributes of the patch come first, the kept ones after them
mergeAttributes_patchFirst(attributes, patchAttributes) ==
    patchAttributes
        \o SelectSeq(attributes,
                     LAMBDA a : ~(\E i \in DOMAIN patchAttributes : patchAttributes[i].key = a.key))

\* [...attributes.filter(a => !patchAttributes.some(n => n.key === a.key)),
\*  ...patchAttributes]
mergeAttributes(attributes, patchAttributes) ==
    SelectSeq(attributes,
              LAMBDA a : ~(\E i \in DOMAIN patchAttributes : patchAttributes[i].key = a.key))
        \o patchAttributes

\* a JS Map keyed by the id of its values is the list of its values in
\* insertion order: set on a present key keeps the position of the key
MapHas(map, id) == \E i \in DOMAIN map : map[i].id = id

MapGet(map, id) == map[CHOOSE i \in DOMAIN map : map[i].id = id]

MapSet(map, id, value) ==
    IF MapHas(map, id)
    THEN [i \in DOMAIN map |-> IF map[i].id = id THEN value ELSE map[i]]
    ELSE Append(map, value)

MapDelete(map, id) == SelectSeq(map, LAMBDA value : value.id # id)

\* new Map(list.map(x => [x.id, x]))
RECURSIVE MapFrom(_, _)
MapFrom(map, list) ==
    IF Len(list) = 0 THEN map
    ELSE MapFrom(MapSet(map, Head(list).id, Head(list)), Tail(list))

\* mutant: the scene of the patch replaces the scene of the state
applyScene_replaces(nextState, patch) ==
    IF "scene" \notin DOMAIN patch THEN nextState
    ELSE Spread(nextState, [scene |-> patch.scene])

\* if (patch.scene) nextState.scene = {...scene, ...patch.scene,
\*                     location: {...scene.location, ...patch.scene.location}}
applyScene(nextState, patch) ==
    IF "scene" \notin DOMAIN patch THEN nextState
    ELSE Spread(nextState,
            [scene |-> Spread(Spread(nextState.scene, patch.scene),
                          [location |-> Spread(nextState.scene.location,
                                               FieldOrEmpty(patch.scene, "location"))])])

\* mutant: the location of the player starts from the location of the scene
applyPlayer_followsScene(nextState, patch) ==
    IF "player" \notin DOMAIN patch THEN nextState
    ELSE LET p == patch.player
             player1 == Spread(nextState.player,
                            [location |-> Spread(nextState.scene.location,
                                                 FieldOrEmpty(p, "location"))])
             scalars == [k \in DOMAIN p \ {"inventory", "capabilities", "attributes", "location"}
                            |-> p[k]]
         IN  Spread(nextState, [player |-> Spread(player1, scalars)])

applyPlayer(nextState, patch) ==
    IF "player" \notin DOMAIN patch THEN nextState
    ELSE LET p == patch.player
             player0 == FieldOrEmpty(nextState, "player")
             player1 == Spread(player0,
                            [location |-> Spread(FieldOrEmpty(player0, "location"),
                                                 FieldOrEmpty(p, "location"))])
             player2 == IF "inventory" \in DOMAIN p
                        THEN Spread(player1,
                                 [inventory |-> mergeSet(FieldOrEmpty(player1, "inventory"),
                                                         p.inventory)])
                        ELSE player1
             player3 == IF "capabilities" \in DOMAIN p
                        THEN Spread(player2,
                                 [capabilities |-> mergeSet(FieldOrEmpty(player2, "capabilities"),
                                                            p.capabilities)])
                        ELSE player2
             player4 == IF "attributes" \in DOMAIN p
                        THEN Spread(player3,
                                 [attributes |-> mergeAttributes(player3.attributes, p.attributes)])
                        ELSE player3
             scalars == [k \in DOMAIN p \ {"inventory", "capabilities", "attributes", "location"}
                            |-> p[k]]
         IN  Spread(nextState, [player |-> Spread(player4, scalars)])

\* entityPatch.field || fallback
OrElse(rec, field, fallback) == IF Truthy(rec, field) THEN rec[field] ELSE fallback

IsDeleted(entityPatch) == "deleted" \in DOMAIN entityPatch /\ entityPatch.deleted

\* mutant: an entry with deleted = true that carries other fields is merged
\* like any other entry
applyEntityPatch_deleteOnlyBare(entMap, entityPatch) ==
    IF ~Truthy(entityPatch, "id") THEN entMap
    ELSE LET id == entityPatch.id
         IN  IF IsDeleted(entityPatch) /\ DOMAIN entityPatch = {"id", "deleted"}
             THEN (IF MapHas(entMap, id) THEN MapDelete(entMap, id) ELSE entMap)
             ELSE IF MapHas(entMap, id)
             THEN LET existing == MapGet(entMap, id)
                  IN  MapSet(entMap, id,
                          Spread(Spread(existing, entityPatch),
                              [location |-> Spread(existing.location,
                                                   FieldOrEmpty(entityPatch, "location")),
                               attributes |-> mergeAttributes(existing.attributes,
                                                  FieldOrEmpty(entityPatch, "attributes"))]))
             ELSE MapSet(entMap, id,
                      Spread(Spread([attributes |-> << >>], entityPatch),
                          [name |-> OrElse(entityPatch, "name", "Unknown Entity"),
                           location |-> Spread([name |-> "Unknown"],
                                               FieldOrEmpty(entityPatch, "location")),
                           condition |-> OrElse(entityPatch, "condition", "Unknown"),
                           activity |-> OrElse(entityPatch, "activity", "New"),
                           relationToPlayer |-> OrElse(entityPatch, "relationToPlayer", "Neutral")]))

\* mutant: a new entity gets the location of the entry, without the default
applyEntityPatch_noDefaultLocation(entMap, entityPatch) ==
    IF ~Truthy(entityPatch, "id") THEN entMap
    ELSE LET id == entityPatch.id
         IN  IF IsDeleted(entityPatch)
             THEN (IF MapHas(entMap, id) THEN MapDelete(entMap, id) ELSE entMap)
             ELSE IF MapHas(entMap, id)
             THEN LET existing == MapGet(entMap, id)
                  IN  MapSet(entMap, id,
                          Spread(Spread(existing, entityPatch),
                              [location |-> Spread(existing.location,
                                                   FieldOrEmpty(entityPatch, "location")),
                               attributes |-> mergeAttributes(existing.attributes,
                                                  FieldOrEmpty(entityPatch, "attributes"))]))
             ELSE MapSet(entMap, id,
                      Spread(Spread([attributes |-> << >>], entityPatch),
                          [name |-> OrElse(entityPatch, "name", "Unknown Entity"),
                           location |-> FieldOrEmpty(entityPatch, "location"),
                           condition |-> OrElse(entityPatch, "condition", "Unknown"),
                           activity |-> OrElse(entityPatch, "activity", "New"),
                           relationToPlayer |-> OrElse(entityPatch, "relationToPlayer", "Neutral")]))

\* mutant: an update replaces the location of the entity by the location of
\* the entry
applyEntityPatch_replacesLocation(entMap, entityPatch) ==
    IF ~Truthy(entityPatch, "id") THEN entMap
    ELSE LET id == entityPatch.id
         IN  IF IsDeleted(entityPatch)
             THEN (IF MapHas(entMap, id) THEN MapDelete(entMap, id) ELSE entMap)
             ELSE IF MapHas(entMap, id)
             THEN LET existing == MapGet(entMap, id)
                  IN  MapSet(entMap, id,
                          Spread(Spread(existing, entityPatch),
                              [location |-> IF "location" \in DOMAIN entityPatch
                                            THEN entityPatch.location ELSE existing.location,
                               attributes |-> mergeAttributes(existing.attributes,
                                                  FieldOrEmpty(entityPatch, "attributes"))]))
             ELSE MapSet(entMap, id,
                      Spread(Spread([attributes |-> << >>], entityPatch),
                          [name |-> OrElse(entityPatch, "name", "Unknown Entity"),
                           location |-> Spread([name |-> "Unknown"],
                                               FieldOrEmpty(entityPatch, "location")),
                           condition |-> OrElse(entityPatch, "condition", "Unknown"),
                           activity |-> OrElse(entityPatch, "activity", "New"),
                           relationToPlayer |-> OrElse(entityPatch, "relationToPlayer", "Neutral")]))

\* the body of for (const entityPatch of patch.entities)
applyEntityPatch(entMap, entityPatch) ==
    IF ~Truthy(entityPatch, "id") THEN entMap
    ELSE LET id == entityPatch.id
         IN  IF IsDeleted(entityPatch)
             THEN (IF MapHas(entMap, id) THEN MapDelete(entMap, id) ELSE entMap)
             ELSE IF MapHas(entMap, id)
             THEN LET existing == MapGet(entMap, id)
                  IN  MapSet(entMap, id,
                          Spread(Spread(existing, entityPatch),
                              [location |-> Spread(existing.location,
                                                   FieldOrEmpty(entityPatch, "location")),
                               attributes |-> mergeAttributes(existing.attributes,
                                                  FieldOrEmpty(entityPatch, "attributes"))]))
             ELSE LET name == OrElse(entityPatch, "name", "Unknown Entity")
                      baseLocation == [name |-> "Unknown"]
                      mergedLocation == Spread(baseLocation, FieldOrEmpty(entityPatch, "location"))
                  IN  MapSet(entMap, id,
                          Spread(Spread([attributes |-> << >>], entityPatch),
                              [name |-> name,
                               location |-> mergedLocation,
                               condition |-> OrElse(entityPatch, "condition", "Unknown"),
                               activity |-> OrElse(entityPatch, "activity", "New"),
                               relationToPlayer |-> OrElse(entityPatch, "relationToPlayer", "Neutral")]))

RECURSIVE applyEntityPatches(_, _)
applyEntityPatches(entMap, entityPatches) ==
    IF Len(entityPatches) = 0 THEN entMap
    ELSE applyEntityPatches(applyEntityPatch(entMap, Head(entityPatches)), Tail(entityPatches))

applyEntities(nextState, patch) ==
    IF "entities" \notin DOMAIN patch THEN nextState
    ELSE LET currentEntities == FieldOrEmpty(nextState, "entities")
             entMap == MapFrom(<< >>, currentEntities)
         IN  Spread(nextState, [entities |-> applyEntityPatches(entMap, patch.entities)])

\* mutant: an empty steps list counts as no steps supplied
applyQuestPatch_keepsStepsWhenEmpty(map, q) ==
    IF MapHas(map, q.id)
    THEN LET existing == MapGet(map, q.id)
             merged == Spread(existing, q)
         IN  MapSet(map, q.id,
                 IF "steps" \in DOMAIN q /\ Len(q.steps) > 0 THEN Spread(merged, [steps |-> q.steps])
                 ELSE IF "steps" \in DOMAIN existing THEN Spread(merged, [steps |-> existing.steps])
                 ELSE merged)
    ELSE IF Truthy(q, "label") /\ Truthy(q, "status") THEN MapSet(map, q.id, q)
    ELSE map

\* the body of for (const q of patch.quests)
applyQuestPatch(map, q) ==
    IF MapHas(map, q.id)
    THEN LET existing == MapGet(map, q.id)
             merged == Spread(existing, q)
         IN  MapSet(map, q.id,
                 IF "steps" \in DOMAIN q THEN Spread(merged, [steps |-> q.steps])
                 ELSE IF "steps" \in DOMAIN existing THEN Spread(merged, [steps |-> existing.steps])
                 ELSE merged)
    ELSE IF Truthy(q, "label") /\ Truthy(q, "status") THEN MapSet(map, q.id, q)
    ELSE map

RECURSIVE applyQuestPatches(_, _)
applyQuestPatches(map, quests) ==
    IF Len(quests) = 0 THEN map
    ELSE applyQuestPatches(applyQuestPatch(map, Head(quests)), Tail(quests))

applyQuests(nextState, patch) ==
    IF "quests" \notin DOMAIN patch THEN nextState
    ELSE Spread(nextState,
            [quests |-> applyQuestPatches(MapFrom(<< >>, nextState.quests), patch.quests)])

\* mutant: an entry for an unknown thread id is inserted as it is
applyThreadPatch_insertsAlways(map, t) ==
    IF MapHas(map, t.id) THEN MapSet(map, t.id, Spread(MapGet(map, t.id), t))
    ELSE MapSet(map, t.id, t)

\* the body of for (const t of patch.threads)
applyThreadPatch(map, t) ==
    IF MapHas(map, t.id) THEN MapSet(map, t.id, Spread(MapGet(map, t.id), t))
    ELSE IF Truthy(t, "description") THEN MapSet(map, t.id, t)
    ELSE map

RECURSIVE applyThreadPatches(_, _)
applyThreadPatches(map, threads) ==
    IF Len(threads) = 0 THEN map
    ELSE applyThreadPatches(applyThreadPatch(map, Head(threads)), Tail(threads))

applyThreads(nextState, patch) ==
    IF "threads" \notin DOMAIN patch THEN nextState
    ELSE Spread(nextState,
            [threads |-> applyThreadPatches(MapFrom(<< >>, nextState.threads), patch.threads)])

\* mutant: every string of add is pushed, present or not
applyListPatch_appendsAll(current, change) ==
    LET list == current \o FieldOrEmpty(change, "add")
    IN  IF "remove" \in DOMAIN change
        THEN SelectSeq(list, LAMBDA item : ~Includes(change.remove, item))
        ELSE list

\* let list = [...current]; the strings of add that list does not include
\* are pushed, then the strings of remove are filtered out.  (For facts the
\* two steps are skipped when the array is empty, which gives the same list.)
applyListPatch(current, change) ==
    LET newItems == IF "add" \in DOMAIN change
                    THEN SelectSeq(change.add, LAMBDA item : ~Includes(current, item))
                    ELSE << >>
        list == current \o newItems
    IN  IF "remove" \in DOMAIN change
        THEN SelectSeq(list, LAMBDA item : ~Includes(change.remove, item))
        ELSE list

ListFields == {"facts", "hypotheses", "secrets"}

applyLists(nextState, currentState, patch) ==
    [k \in DOMAIN nextState \cup (ListFields \cap DOMAIN patch) |->
        IF k \in ListFields \cap DOMAIN patch
        THEN applyListPatch(currentState[k], patch[k])
        ELSE nextState[k]]

\* applyStatePatch on a world state that has every field of WorldState
applyStatePatch(currentState, patch) ==
    applyLists(
        applyThreads(applyQuests(applyEntities(applyPlayer(applyScene(currentState, patch),
                                                           patch), patch), patch), patch),
        currentState, patch)

\* mutant: an entry for an unknown entity id that has no name is an error
entityPatchThrows_requiresName(entMap, entityPatch) ==
    /\ Truthy(entityPatch, "id")
    /\ ~IsDeleted(entityPatch)
    /\ IF MapHas(entMap, entityPatch.id)
       THEN "attributes" \notin DOMAIN MapGet(entMap, entityPatch.id)
       ELSE ~Truthy(entityPatch, "name")

\* the loop body throws a TypeError: existing.attributes.filter on an entity
\* that has no attributes
entityPatchThrows(entMap, entityPatch) ==
    /\ Truthy(entityPatch, "id")
    /\ ~IsDeleted(entityPatch)
    /\ MapHas(entMap, entityPatch.id)
    /\ "attributes" \notin DOMAIN MapGet(entMap, entityPatch.id)

RECURSIVE entityPatchesThrow(_, _)
entityPatchesThrow(entMap, entityPatches) ==
    IF Len(entityPatches) = 0 THEN FALSE
    ELSE \/ entityPatchThrows(entMap, Head(entityPatches))
         \/ entityPatchesThrow(applyEntityPatch(entMap, Head(entityPatches)), Tail(entityPatches))

\* applyStatePatch throws instead of returning: the property reads of the
\* code that fail on undefined (nextState.scene.location,
\* nextState.player.attributes.filter, existing.attributes.filter,
\* nextState.quests.map, nextState.threads.map, [...currentState.facts]);
\* the quest and thread loops and the skipped entries read nothing that can
\* be undefined
applyStatePatchThrows(currentState, patch) ==
    \/ "scene" \in DOMAIN patch /\ "scene" \notin DOMAIN currentState
    \/ /\ "player" \in DOMAIN patch
       /\ "attributes" \in DOMAIN patch.player
       /\ "attributes" \notin DOMAIN FieldOrEmpty(currentState, "player")
    \/ /\ "entities" \in DOMAIN patch
       /\ entityPatchesThrow(MapFrom(<< >>, FieldOrEmpty(currentState, "entities")),
                             patch.entities)
    \/ \E field \in {"quests", "threads"} \cup ListFields :
          field \in DOMAIN patch /\ field \notin DOMAIN currentState

\* if (x[from] && !x[to]) { x[to] = x[from]; delete x[from] }
RenameLegacy(rec, from, to) ==
    IF Truthy(rec, from) /\ ~Truthy(rec, to)
    THEN [k \in (DOMAIN rec \ {from}) \cup {to} |-> IF k = to THEN rec[from] ELSE rec[k]]
    ELSE rec

\* legacy snapshots: player.status -> condition, entity.status -> condition,
\* quest.title -> label; everything else is copied.  entities and quests are
\* arrays in every state of this model, so Array.isArray holds where the
\* field is present.
migrateState(state) ==
    IF state = NoState THEN state
    ELSE LET s1 == IF "player" \in DOMAIN state
                   THEN [state EXCEPT !.player = RenameLegacy(@, "status", "condition")]
                   ELSE state
             s2 == IF "entities" \in DOMAIN s1
                   THEN [s1 EXCEPT !.entities =
                            [i \in DOMAIN @ |-> RenameLegacy(@[i], "status", "condition")]]
                   ELSE s1
             s3 == IF "quests" \in DOMAIN s2
                   THEN [s2 EXCEPT !.quests =
                            [i \in DOMAIN @ |-> RenameLegacy(@[i], "title", "label")]]
                   ELSE s2
         IN  s3

----------------------------------------------------------------------------
(* PatchSpec: applyStatePatch applied to a world state, patch after patch *)

Goblin ==
    [id |-> "e1", name |-> "Goblin", condition |-> "Hostile",
     activity |-> "Growling", relationToPlayer |-> "Hostile"]

\* the world states a session starts from: the default one, and the one the
\* first reply of a session has made of it
SeedStates ==
    {DEFAULT_WORLD_STATE,
     applyStatePatch(DEFAULT_WORLD_STATE,
         [entities |-> <<Goblin>>, facts |-> [add |-> <<"f1">>]])}

ListChanges(x, y) ==
    {[add |-> <<x>>], [add |-> <<y>>], [remove |-> <<x>>],
     [add |-> <<x>>, remove |-> <<x>>], [add |-> <<y>>, remove |-> <<x>>]}

ListPatches ==
    {[facts |-> change] : change \in ListChanges("f1", "f2") \cup {[add |-> <<"f2", "f2">>]}}
        \cup {[hypotheses |-> change] : change \in {[add |-> <<"h1">>, remove |-> <<"h1">>],
                                                   [add |-> <<"h1">>]}}
        \cup {[secrets |-> change] : change \in {[add |-> <<"s1">>, remove |-> <<"s1">>],
                                                [add |-> <<"s1">>]}}

\* the entries of patch.entities: creations with and without a name, with
\* and without a location, deletions that carry other fields, updates of
\* single fields, of the location and of the attributes
EntityPatches ==
    {[entities |-> entityPatches] : entityPatches \in
        {<<Goblin>>,
         <<[id |-> "e2", condition |-> "Asleep"]>>,
         <<[id |-> "e2", name |-> "Orc", condition |-> "", location |-> [detail |-> "gate"]]>>,
         <<[id |-> "e1", deleted |-> TRUE, condition |-> "anything"]>>,
         <<[id |-> "e2", deleted |-> TRUE, name |-> "Ghost"]>>,
         <<[id |-> "e1", condition |-> "Wounded"]>>,
         <<[id |-> "e1", deleted |-> FALSE, activity |-> "Fleeing", location |-> [detail |-> "cave"]]>>,
         <<[id |-> "e1", location |-> [name |-> "Forest"]]>>,
         <<[id |-> "e1", attributes |-> <<[key |-> "hp", value |-> "5"]>>]>>,
         <<[id |-> "e1", attributes |-> <<[key |-> "mp", value |-> "1"], [key |-> "hp", value |-> "3"]>>]>>,
         <<[id |-> "e1", deleted |-> TRUE], [id |-> "e2", name |-> "Orc"]>>,
         <<[id |-> "e1", deleted |-> TRUE], [id |-> "e1", name |-> "Goblin II"]>>}}

ScenePatches ==
    {[scene |-> [time |-> "Night", location |-> [name |-> "Inn"]]],
     [scene |-> [time |-> "Dawn", location |-> [name |-> "Inn", detail |-> "attic"],
                 atmosphere |-> "Tense"]]}

\* patch.player: items added, removed, removed and added again, added
\* twice in one list; attributes with a new and with a known key
PlayerPatches ==
    {[player |-> [condition |-> "Tired", location |-> [name |-> "Inn"],
                  inventory |-> [add |-> <<"key">>]]],
     [player |-> [condition |-> "Healthy", location |-> [name |-> "Inn"],
                  inventory |-> [add |-> <<"key">>, remove |-> <<"key">>],
                  attributes |-> <<[key |-> "hp", value |-> "9"]>>]],
     [player |-> [condition |-> "Tired", location |-> [name |-> "Inn", detail |-> "bar"],
                  capabilities |-> [add |-> <<"fly">>, remove |-> <<"fly">>],
                  attributes |-> <<[key |-> "str", value |-> "1"]>>]],
     [player |-> [condition |-> "Tired", location |-> [name |-> "Road"],
                  inventory |-> [add |-> <<"rope", "key", "rope">>],
                  capabilities |-> [remove |-> <<"fly">>]]]}

\* patch.quests: a creation, updates with and without steps (a new list, the
\* empty list), and entries for an unknown id without status or without label
QuestPatches ==
    {[quests |-> quests] : quests \in
        {<<[id |-> "q1", label |-> "Find the Sword", status |-> "ACTIVE",
            steps |-> <<[description |-> "Enter cave", completed |-> FALSE]>>]>>,
         <<[id |-> "q1", status |-> "COMPLETED"]>>,
         <<[id |-> "q1", steps |-> <<[description |-> "Enter cave", completed |-> TRUE],
                                     [description |-> "Find sword", completed |-> FALSE]>>]>>,
         <<[id |-> "q1", label |-> "Find the Blade", steps |-> << >>]>>,
         <<[id |-> "q2", label |-> "Rescue"]>>,
         <<[id |-> "q2", status |-> "ACTIVE"]>>}}

\* patch.threads: a creation, an update, and an entry for an unknown id
\* without description
ThreadPatches ==
    {[threads |-> threads] : threads \in
        {<<[id |-> "t1", description |-> "Red box", status |-> "UNRESOLVED"]>>,
         <<[id |-> "t1", status |-> "RESOLVED"]>>,
         <<[id |-> "t2", status |-> "UNRESOLVED"]>>}}

\* a patch that has none of the merged fields: it only reports events
EventPatches ==
    {[events |-> <<[summary |-> "Met the king", type |-> "NOTE", timestamp |-> "Night"]>>]}

AllPatches ==
    ListPatches \cup EntityPatches \cup ScenePatches \cup PlayerPatches
        \cup QuestPatches \cup ThreadPatches \cup EventPatches

PatchInit ==
    /\ tree = createEmptyTree(1, DEFAULT_SYSTEM_PROMPT, NoState)
    /\ idCount = 1
    /\ err = FALSE
    /\ isGenerating = FALSE
    /\ pending = << >>
    /\ worldState \in SeedStates
    /\ prevWorldState = worldState
    /\ lastPatch = NoPatch
    /\ applied = 0
    /\ NoSessionOpen

\* nextState = applyStatePatch(nextState, data.statePatch)
Merge(patch) ==
    /\ worldState' = applyStatePatch(worldState, patch)
    /\ prevWorldState' = worldState
    /\ lastPatch' = patch
    /\ applied' = applied + 1
    /\ UNCHANGED <<treeVars, sessionVars, chronicleVars>>

PatchLists == \E patch \in ListPatches : applied < MaxPatches /\ Merge(patch)

PatchEntities == \E patch \in EntityPatches : applied < MaxPatches /\ Merge(patch)

PatchScene == \E patch \in ScenePatches : applied < MaxPatches /\ Merge(patch)

PatchPlayer == \E patch \in PlayerPatches : applied < MaxPatches /\ Merge(patch)

PatchQuests == \E patch \in QuestPatches : applied < MaxPatches /\ Merge(patch)

PatchThreads == \E patch \in ThreadPatches : applied < MaxPatches /\ Merge(patch)

PatchEvents == \E patch \in EventPatches : applied < MaxPatches /\ Merge(patch)

PatchNext ==
    \/ PatchLists
    \/ PatchEntities
    \/ PatchScene
    \/ PatchPlayer
    \/ PatchQuests
    \/ PatchThreads
    \/ PatchEvents

PatchSpec == PatchInit /\ [][PatchNext]_vars

----------------------------------------------------------------------------
(* StoreSpec: createChatSlice.ts *)

\* let pId = start; while (pId) { if (nodes[pId].state) { cur = migrateState(..); break }
\*                                 pId = nodes[pId].parentId }
RECURSIVE stateFrom(_, _)
stateFrom(t, pId) ==
    IF pId = NoId THEN NoState
    ELSE IF t.nodes[pId].state # NoState THEN migrateState(t.nodes[pId].state)
    ELSE stateFrom(t, t.nodes[pId].parentId)

\* what a generation request answers: data.parts and the optional data.statePatch
ReplyData ==
    [parts : PartsArgs,
     statePatch : {NoPatch, [facts |-> [add |-> <<"f2">>]]}]

\* mutant: the patch is always merged into the default world state
nextStateOf_fromDefault(currentState, data) ==
    IF data.statePatch # NoPatch THEN applyStatePatch(DEFAULT_WORLD_STATE, data.statePatch)
    ELSE DEFAULT_WORLD_STATE

\* let nextState = currentState || DEFAULT_WORLD_STATE;
\* if (data.statePatch) nextState = applyStatePatch(nextState, data.statePatch)
nextStateOf(currentState, data) ==
    LET base == IF currentState = NoState THEN DEFAULT_WORLD_STATE ELSE currentState
    IN  IF data.statePatch # NoPatch THEN applyStatePatch(base, data.statePatch) ELSE base

\* a request in flight keeps the values its handler captured before the await
Request(kind, t, targetId, currentState) ==
    [kind |-> kind, tree |-> t, targetId |-> targetId, currentState |-> currentState]

\* the requests that wait for the answer of the chat endpoint
FetchKinds == {"send", "regenerate", "edit"}

RemoveAt(seq, i) == SubSeq(seq, 1, i - 1) \o SubSeq(seq, i + 1, Len(seq))

\* sendMessage up to its await fetch(...)
SendMessage ==
    \E text \in Texts :
        LET r == appendUser(tree, text, idCount + 1)
        IN  /\ idCount < MaxNodes
            /\ Len(pending) < MaxPending
            /\ UNCHANGED <<patchVars, sessionVars, chronicleVars>>
            /\ IF r.ok
               THEN LET nextTree == r.tree
                        currentState == stateFrom(nextTree, nextTree.nodes[nextTree.headId].parentId)
                    IN  /\ tree' = nextTree
                        /\ idCount' = idCount + 1
                        /\ isGenerating' = TRUE
                        /\ pending' = Append(pending, Request("send", nextTree, nextTree.headId, currentState))
                        /\ err' = FALSE
               ELSE /\ err' = TRUE
                    /\ UNCHANGED <<tree, idCount, isGenerating, pending>>

\* mutant: the rewound tree sent with the request is also put into the store
Regenerate_commitsRewind ==
    \E nodeId \in DOMAIN tree.nodes \cup {NoId, UnknownId} :
        LET targetId == IF nodeId # NoId THEN nodeId ELSE tree.headId
        IN  /\ UNCHANGED <<patchVars, sessionVars, chronicleVars>>
            /\ err' = FALSE
            /\ IF targetId \notin DOMAIN tree.nodes \/ tree.nodes[targetId].role # "assistant"
                  \/ tree.nodes[targetId].parentId = NoId
               THEN UNCHANGED <<tree, idCount, isGenerating, pending>>
               ELSE LET tempTree == setHead(tree, tree.nodes[targetId].parentId)
                    IN  /\ idCount < MaxNodes
                        /\ Len(pending) < MaxPending
                        /\ tree' = tempTree
                        /\ isGenerating' = TRUE
                        /\ pending' = Append(pending,
                               Request("regenerate", tree, targetId,
                                       stateFrom(tree, tree.nodes[targetId].parentId)))
                        /\ UNCHANGED idCount

\* regenerate up to its await fetch(...); nodeId NoId is the omitted argument
Regenerate ==
    \E nodeId \in DOMAIN tree.nodes \cup {NoId, UnknownId} :
        LET targetId == IF nodeId # NoId THEN nodeId ELSE tree.headId
        IN  /\ UNCHANGED <<patchVars, sessionVars, chronicleVars>>
            /\ IF targetId \notin DOMAIN tree.nodes \/ tree.nodes[targetId].role # "assistant"
               THEN /\ err' = FALSE
                    /\ UNCHANGED <<tree, idCount, isGenerating, pending>>
               ELSE LET parentId == tree.nodes[targetId].parentId
                    IN  IF parentId = NoId
                        THEN \* throw inside try: catch, then finally set({isGenerating: false})
                             /\ isGenerating' = FALSE
                             /\ err' = FALSE
                             /\ UNCHANGED <<tree, idCount, pending>>
                        ELSE /\ idCount < MaxNodes  \* the reply needs a fresh id
                             /\ Len(pending) < MaxPending
                             /\ isGenerating' = TRUE
                             /\ pending' = Append(pending,
                                    Request("regenerate", tree, targetId, stateFrom(tree, parentId)))
                             /\ err' = FALSE
                             /\ UNCHANGED <<tree, idCount>>

\* editMessage up to its await fetch(...), or to its end for a node that is
\* not a user node
EditMessage ==
    \E nodeId \in DOMAIN tree.nodes \cup {UnknownId}, newText \in {"c"} :
        /\ UNCHANGED <<patchVars, sessionVars, chronicleVars>>
        /\ IF nodeId \notin DOMAIN tree.nodes
           THEN /\ err' = FALSE
                /\ UNCHANGED <<tree, idCount, isGenerating, pending>>
           ELSE LET r == rewriteNode(tree, nodeId, TextPart(newText), idCount + 1)
                IN  IF ~r.ok
                    THEN /\ err' = TRUE
                         /\ UNCHANGED <<tree, idCount, isGenerating, pending>>
                    ELSE LET nextTree == r.tree
                         IN  /\ idCount < MaxNodes
                             /\ tree' = nextTree
                             /\ idCount' = idCount + 1
                             /\ err' = FALSE
                             /\ IF tree.nodes[nodeId].role = "user"
                                THEN /\ Len(pending) < MaxPending
                                     /\ isGenerating' = TRUE
                                     /\ pending' = Append(pending,
                                            Request("edit", nextTree, nextTree.headId,
                                                    stateFrom(nextTree, nextTree.nodes[nextTree.headId].parentId)))
                                ELSE UNCHANGED <<isGenerating, pending>>

\* saveSession: nothing without an open session; otherwise the tree and the
\* chronicle of the store are put under currentSessionId.  The body of the
\* PUT is made before the await, so the file is what the store held at the
\* call.
saveSession(sessionId, t, chron, files) ==
    IF sessionId = NoSession THEN files
    ELSE [files EXCEPT ![sessionId] = [tree |-> t, chronicle |-> chron]]

\* the request answers: the rest of the try block, then finally
RequestSucceeds ==
    \E i \in DOMAIN pending, data \in ReplyData :
        LET req == pending[i]
            nextState == nextStateOf(req.currentState, data)
            r == IF req.kind = "regenerate"
                 THEN regenerateAssistant(req.tree, req.targetId, data.parts, nextState, idCount + 1)
                 ELSE replyAssistant(req.tree, req.tree.headId, data.parts, nextState, idCount + 1)
        IN  /\ req.kind \in FetchKinds
            /\ idCount < MaxNodes
            /\ IF r.ok THEN /\ tree' = r.tree
                            /\ idCount' = idCount + 1
                            /\ saved' = saveSession(currentSessionId, r.tree, chronicle, saved)
                       ELSE UNCHANGED <<tree, idCount, saved>>
            /\ isGenerating' = FALSE
            /\ pending' = RemoveAt(pending, i)
            /\ err' = FALSE
            /\ UNCHANGED <<patchVars, currentSessionId, loads, chronicleVars>>

\* mutant: a failed request takes the head back to the parent of its node
RequestFails_rollsBack ==
    \E i \in DOMAIN pending :
        /\ pending[i].kind \in FetchKinds
        /\ tree' = setHead(tree, tree.nodes[pending[i].targetId].parentId)
        /\ isGenerating' = FALSE
        /\ pending' = RemoveAt(pending, i)
        /\ err' = FALSE
        /\ UNCHANGED <<idCount, patchVars, sessionVars, chronicleVars>>

\* mutant: the handler has a catch block but no finally block
RequestFails_noFinally ==
    \E i \in DOMAIN pending :
        /\ pending[i].kind \in FetchKinds
        /\ pending' = RemoveAt(pending, i)
        /\ err' = FALSE
        /\ UNCHANGED <<tree, idCount, isGenerating, patchVars, sessionVars, chronicleVars>>

\* fetch rejects or the response is not ok: catch, then finally
RequestFails ==
    \E i \in DOMAIN pending :
        /\ pending[i].kind \in FetchKinds
        /\ isGenerating' = FALSE
        /\ pending' = RemoveAt(pending, i)
        /\ err' = FALSE
        /\ UNCHANGED <<tree, idCount, patchVars, sessionVars, chronicleVars>>

\* mutant: the index is not wrapped, it stops at the first and the last sibling
navigateBranch_clamps(t, nodeId, direction) ==
    IF nodeId \notin DOMAIN t.nodes \/ t.nodes[nodeId].parentId = NoId
    THEN Ok(t)
    ELSE LET siblings == getAlternatives(t, t.nodes[nodeId].parentId)
             found == {i \in DOMAIN siblings : siblings[i].id = nodeId}
         IN  IF found = {}
             THEN Ok(t)
             ELSE LET currentIndex == (CHOOSE i \in found : \A j \in found : i <= j) - 1
                      stepped == IF direction = "next" THEN currentIndex + 1 ELSE currentIndex - 1
                      looped == IF stepped < 0 THEN 0 ELSE stepped
                      nextIndex == IF looped >= Len(siblings) THEN Len(siblings) - 1 ELSE looped
                  IN  setActive(t, siblings[nextIndex + 1].id, "omitted")

\* the tree that navigateBranch stores: Ok(t) is an early return, Throw an
\* error thrown by setActive (nothing is stored)
navigateBranch(t, nodeId, direction) ==
    IF nodeId \notin DOMAIN t.nodes \/ t.nodes[nodeId].parentId = NoId
    THEN Ok(t)
    ELSE LET siblings == getAlternatives(t, t.nodes[nodeId].parentId)
             found == {i \in DOMAIN siblings : siblings[i].id = nodeId}
         IN  IF found = {}
             THEN Ok(t)
             ELSE LET currentIndex == (CHOOSE i \in found : \A j \in found : i <= j) - 1
                      stepped == IF direction = "next" THEN currentIndex + 1 ELSE currentIndex - 1
                      looped == IF stepped < 0 THEN Len(siblings) - 1 ELSE stepped
                      nextIndex == IF looped >= Len(siblings) THEN 0 ELSE looped
                  IN  setActive(t, siblings[nextIndex + 1].id, "omitted")

Directions == {"prev", "next"}

NavigateBranch ==
    \E nodeId \in DOMAIN tree.nodes \cup {UnknownId}, direction \in Directions :
        LET r == navigateBranch(tree, nodeId, direction)
        IN  /\ IF r.ok THEN tree' = r.tree /\ err' = FALSE
                       ELSE tree' = tree /\ err' = TRUE
            /\ UNCHANGED <<idCount, isGenerating, pending, patchVars, sessionVars, chronicleVars>>

StoreNext ==
    \/ SendMessage
    \/ Regenerate
    \/ EditMessage
    \/ RequestSucceeds
    \/ RequestFails
    \/ NavigateBranch

StoreSpec == Init /\ [][StoreNext]_vars

\* every fetch resolves or rejects: a request in flight does not stay there
\* for ever
FairStoreSpec == StoreSpec /\ WF_vars(RequestSucceeds \/ RequestFails)

\* SessionSpec: the same store in the middle of a session that createSession
\* has made and loadSession has put into the store (set({tree: session.tree,
\* ...})).  The root of the session got its id before the store handed out
\* its first one.  One exchange is over: the user node 1 and the reply 2,
\* which carries the world state made by its patch.  sendMessage has
\* appended the user node 3 and waits for the answer to its request.
SessionRootId == RootIdOf("A")

\* the tree after the first exchange, as saveSession has written it
SessionSavedTree ==
    LET t0 == createEmptyTree(SessionRootId, DEFAULT_SYSTEM_PROMPT, NoState)
        t1 == appendUser(t0, "a", 1).tree
        data == [parts |-> CHOOSE parts \in PartsArgs : TRUE,
                 statePatch |-> [facts |-> [add |-> <<"f1">>]]]
    IN  replyAssistant(t1, t1.headId, data.parts, nextStateOf(NoState, data), 2).tree

SessionTree == appendUser(SessionSavedTree, "a", 3).tree

\* the session A is open, nothing is being loaded or wrapped up
SessionOpen(t) ==
    /\ currentSessionId = "A"
    /\ saved = [ServerSessions EXCEPT !["A"].tree = t]
    /\ loads = {}
    /\ chronicle = NoChronicle
    /\ wraps = << >>

SessionInit ==
    /\ tree = SessionTree
    /\ idCount = 3
    /\ err = FALSE
    /\ isGenerating = TRUE
    /\ pending = <<Request("send", SessionTree, SessionTree.headId,
                           stateFrom(SessionTree, SessionTree.nodes[SessionTree.headId].parentId))>>
    /\ worldState = DEFAULT_WORLD_STATE
    /\ prevWorldState = DEFAULT_WORLD_STATE
    /\ lastPatch = NoPatch
    /\ applied = 0
    /\ SessionOpen(SessionSavedTree)

SessionSpec == SessionInit /\ [][StoreNext]_vars

\* RaceSpec: the same store with two requests in flight, in a session that
\* createSession has made.  sendMessage("a") has appended the user node 1 and
\* waits for its answer; the message list does not look at isGenerating, so
\* editMessage(1, "c") has been called meanwhile: it has put the rewritten
\* sibling 2 into the store and waits for its own answer.  Each request holds
\* the tree its handler had made.
RaceSendTree ==
    appendUser(createEmptyTree(SessionRootId, DEFAULT_SYSTEM_PROMPT, NoState), "a", 1).tree

RaceEditTree == rewriteNode(RaceSendTree, 1, TextPart("c"), 2).tree

RaceInit ==
    /\ tree = RaceEditTree
    /\ idCount = 2
    /\ err = FALSE
    /\ isGenerating = TRUE
    /\ pending = <<Request("send", RaceSendTree, RaceSendTree.headId,
                           stateFrom(RaceSendTree, RaceSendTree.nodes[RaceSendTree.headId].parentId)),
                   Request("edit", RaceEditTree, RaceEditTree.headId,
                           stateFrom(RaceEditTree, RaceEditTree.nodes[RaceEditTree.headId].parentId))>>
    /\ worldState = DEFAULT_WORLD_STATE
    /\ prevWorldState = DEFAULT_WORLD_STATE
    /\ lastPatch = NoPatch
    /\ applied = 0
    /\ SessionOpen(ServerSessions["A"].tree)

RaceSpec == RaceInit /\ [][StoreNext]_vars

\* SwitchSpec: the store with the sessions of createSessionSlice.ts.  The
\* session A is open and new; the sidebar opens a session while requests of
\* the chat are in flight.

\* Object.keys(session.tree.nodes).forEach: node.state = migrateState(node.state)
migrateTree(t) ==
    [t EXCEPT !.nodes = [id \in DOMAIN @ |-> [@[id] EXCEPT !.state = migrateState(@)]]]

\* loadSession up to its await fetch(...); the session that is open already
\* is not loaded again
LoadSession ==
    \E sessionId \in SessionIds :
        /\ sessionId # currentSessionId
        /\ sessionId \notin loads
        /\ loads' = loads \cup {sessionId}
        /\ UNCHANGED <<treeVars, patchVars, currentSessionId, saved, chronicleVars>>

\* the server answers with the session file: the rest of the try block
LoadSessionDone ==
    \E sessionId \in loads :
        LET session == saved[sessionId]
        IN  /\ tree' = migrateTree(session.tree)
            /\ currentSessionId' = sessionId
            /\ chronicle' = session.chronicle
            /\ loads' = loads \ {sessionId}
            /\ UNCHANGED <<idCount, err, isGenerating, pending, patchVars, saved, wraps>>

\* the response is not ok or fetch rejects: nothing is put into the store
LoadSessionFails ==
    \E sessionId \in loads :
        /\ loads' = loads \ {sessionId}
        /\ UNCHANGED <<treeVars, patchVars, currentSessionId, saved, chronicleVars>>

SwitchInit ==
    /\ tree = ServerSessions["A"].tree
    /\ idCount = 0
    /\ err = FALSE
    /\ isGenerating = FALSE
    /\ pending = << >>
    /\ worldState = DEFAULT_WORLD_STATE
    /\ prevWorldState = DEFAULT_WORLD_STATE
    /\ lastPatch = NoPatch
    /\ applied = 0
    /\ SessionOpen(ServerSessions["A"].tree)

SwitchNext ==
    \/ StoreNext
    \/ LoadSession
    \/ LoadSessionDone
    \/ LoadSessionFails

SwitchSpec == SwitchInit /\ [][SwitchNext]_vars

\* ChronicleSpec: the store with its chronicle.  The answers of the chat
\* endpoint may carry events (statePatch.events), and wrapUpChapter turns the
\* events of the chronicle into a chapter.  The events of the answers are of
\* type NOTE or SCENE_END, and the chronicle stays below the twenty events
\* at which sendMessage wraps up by itself.
EventTypes == {"NOTE", "SCENE_END"}

EventReplyData ==
    [parts : PartsArgs,
     statePatch : {[events |-> <<[summary |-> "Met the king", type |-> type,
                                  timestamp |-> "Night"]>>] : type \in EventTypes}]

\* get().chronicle || { events: [], chapters: [] }
ChronicleOrEmpty(c) == IF c = NoChronicle THEN EmptyChronicle ELSE c

\* the ids of the events and chapters a chronicle holds
ChronicleIds(c) ==
    IF c = NoChronicle THEN {}
    ELSE {c.events[i].id : i \in DOMAIN c.events}
         \cup {c.chapters[i].id : i \in DOMAIN c.chapters}
         \cup UNION {{c.chapters[i].eventIds[j] : j \in DOMAIN c.chapters[i].eventIds} :
                        i \in DOMAIN c.chapters}

\* crypto.randomUUID(): an id that no event or chapter of the store or of a
\* wrapUpChapter in flight has
FreshChronicleId ==
    LET used == ChronicleIds(chronicle) \cup UNION {ChronicleIds(wraps[i]) : i \in DOMAIN wraps}
    IN  IF used = {} THEN 1 ELSE 1 + CHOOSE m \in used : \A n \in used : n <= m

\* data.statePatch.events.map(e => ({ id: crypto.randomUUID(), ...e }))
newEventsOf(events) ==
    [i \in DOMAIN events |->
        [id |-> FreshChronicleId + i - 1, summary |-> events[i].summary,
         type |-> events[i].type, timestamp |-> events[i].timestamp]]

\* { ...latestChronicle, events: [...latestChronicle.events, ...newEvents] }
appendEvents(c, newEvents) == [ChronicleOrEmpty(c) EXCEPT !.events = @ \o newEvents]

\* wrapUpChapter up to its await fetch(...): nothing without events,
\* otherwise the call keeps the chronicle it has read
wrapUpChapterCall(c, ws) ==
    IF c = NoChronicle \/ c.events = << >> THEN ws ELSE Append(ws, c)

\* the request answers with events.  regenerate and editMessage append them
\* and attach the reply in one go; sendMessage appends them and awaits
\* saveSession before it goes on
RequestSucceedsWithEvents ==
    \E i \in DOMAIN pending, data \in EventReplyData :
        LET req == pending[i]
            nextState == nextStateOf(req.currentState, data)
            newEvents == newEventsOf(data.statePatch.events)
            nextChronicle == appendEvents(chronicle, newEvents)
            hasSceneEnd == \E j \in DOMAIN newEvents : newEvents[j].type = "SCENE_END"
            r == regenerateAssistant(req.tree, req.targetId, data.parts, nextState, idCount + 1)
            e == replyAssistant(req.tree, req.tree.headId, data.parts, nextState, idCount + 1)
            final == IF req.kind = "regenerate" THEN r ELSE e
        IN  /\ req.kind \in FetchKinds
            /\ chronicle' = nextChronicle
            /\ err' = FALSE
            /\ UNCHANGED <<patchVars, currentSessionId, loads, wraps>>
            /\ IF req.kind = "send"
               THEN /\ saved' = saveSession(currentSessionId, tree, nextChronicle, saved)
                    /\ pending' = [pending EXCEPT ![i] =
                          Request(IF hasSceneEnd THEN "sendSavedEnd" ELSE "sendSaved",
                                  req.tree, req.targetId, nextState)]
                    /\ UNCHANGED <<tree, idCount, isGenerating>>
               ELSE /\ idCount < MaxNodes
                    /\ final.ok
                    /\ tree' = final.tree
                    /\ idCount' = idCount + 1
                    /\ saved' = saveSession(currentSessionId, final.tree, nextChronicle, saved)
                    /\ isGenerating' = FALSE
                    /\ pending' = RemoveAt(pending, i)

\* sendMessage after its await get().saveSession(): a scene end starts
\* wrapUpChapter in the background, then the reply is attached
SendSaveReturns ==
    \E i \in DOMAIN pending, parts \in PartsArgs :
        LET req == pending[i]
            r == replyAssistant(req.tree, req.tree.headId, parts, req.currentState, idCount + 1)
        IN  /\ req.kind \in {"sendSaved", "sendSavedEnd"}
            /\ idCount < MaxNodes
            /\ r.ok
            /\ wraps' = IF req.kind = "sendSavedEnd"
                        THEN wrapUpChapterCall(chronicle, wraps) ELSE wraps
            /\ tree' = r.tree
            /\ idCount' = idCount + 1
            /\ saved' = saveSession(currentSessionId, r.tree, chronicle, saved)
            /\ isGenerating' = FALSE
            /\ pending' = RemoveAt(pending, i)
            /\ err' = FALSE
            /\ UNCHANGED <<patchVars, currentSessionId, loads, chronicle>>

\* wrapUpChapter called from the chronicle tab
WrapUpChapter ==
    /\ Len(wraps) < MaxPending
    /\ wrapUpChapterCall(chronicle, wraps) # wraps
    /\ wraps' = wrapUpChapterCall(chronicle, wraps)
    /\ UNCHANGED <<treeVars, patchVars, sessionVars, chronicle>>

\* the summary arrives: the chapter is added to the chapters the call has
\* read, the events are cleared, the session is saved
WrapUpDone ==
    \E i \in DOMAIN wraps :
        LET read == wraps[i]
            newChapter == [id |-> FreshChronicleId,
                           eventIds |-> [j \in DOMAIN read.events |-> read.events[j].id]]
            nextChronicle == [events |-> << >>, chapters |-> Append(read.chapters, newChapter)]
        IN  /\ chronicle' = nextChronicle
            /\ saved' = saveSession(currentSessionId, tree, nextChronicle, saved)
            /\ wraps' = RemoveAt(wraps, i)
            /\ UNCHANGED <<treeVars, patchVars, currentSessionId, loads>>

\* the response is not ok or fetch rejects: catch
WrapUpFails ==
    \E i \in DOMAIN wraps :
        /\ wraps' = RemoveAt(wraps, i)
        /\ UNCHANGED <<treeVars, patchVars, sessionVars, chronicle>>

ChronicleNext ==
    \/ StoreNext
    \/ RequestSucceedsWithEvents
    \/ SendSaveReturns
    \/ WrapUpChapter
    \/ WrapUpDone
    \/ WrapUpFails

ChronicleSpec == Init /\ [][ChronicleNext]_vars

----------------------------------------------------------------------------
(* Properties of the tree structure *)

IndexOf(list, item) == CHOOSE i \in DOMAIN list : list[i] = item

NoDuplicates(list) == \A i, j \in DOMAIN list : list[i] = list[j] => i = j

NonRootIds(t) == {id \in DOMAIN t.nodes : t.nodes[id].parentId # NoId}

\* C1: every node other than the root has a parentId that is the id of a node
\* in nodes, and the child list of that parent contains the node's id.
C1_ParentResolves ==
    \A id \in DOMAIN tree.nodes :
        id # tree.rootId =>
            /\ tree.nodes[id].parentId \in DOMAIN tree.nodes
            /\ Includes(getChildren(tree, tree.nodes[id].parentId), id)

\* a node whose parent is itself not the root is in the tree
C1_Witness ==
    \E id \in DOMAIN tree.nodes :
        /\ tree.nodes[id].parentId \in DOMAIN tree.nodes
        /\ tree.nodes[id].parentId # tree.rootId

\* C2: children is the exact inverse of the parentId fields: c occurs in
\* children[p] iff nodes[c] exists and nodes[c].parentId = p, no id occurs
\* twice in one child list, and the root is the only node without a parentId.
C2_ChildrenInverseOfParent ==
    /\ \A p \in DOMAIN tree.children :
          /\ NoDuplicates(tree.children[p])
          /\ \A i \in DOMAIN tree.children[p] :
                LET c == tree.children[p][i]
                IN  c \in DOMAIN tree.nodes /\ tree.nodes[c].parentId = p
    /\ \A c \in DOMAIN tree.nodes :
          /\ tree.nodes[c].parentId # NoId =>
                Includes(getChildren(tree, tree.nodes[c].parentId), c)
          /\ tree.nodes[c].parentId = NoId <=> c = tree.rootId

\* a parent with two children, added while the head was elsewhere
C2_Witness ==
    \E p \in DOMAIN tree.children :
        /\ Len(tree.children[p]) >= 2
        /\ \E c \in DOMAIN tree.nodes : tree.nodes[c].parentId \notin {NoId, p}

\* C3: headId is the id of a node in nodes, and every key and every value of
\* activeChildByParent is the id of a node in nodes.
C3_HeadAndActiveResolve ==
    /\ tree.headId \in DOMAIN tree.nodes
    /\ \A p \in DOMAIN tree.activeChildByParent :
          p \in DOMAIN tree.nodes /\ tree.activeChildByParent[p] \in DOMAIN tree.nodes

\* C4: history is permanent: a step keeps every node with the same id,
\* relation, role, parts, parentId and state, keeps rootId, keeps the
\* relative order of the ids already in each child list, and adds to a child
\* list only ids of new nodes.
C4_Step ==
    /\ tree'.rootId = tree.rootId
    /\ \A id \in DOMAIN tree.nodes :
          id \in DOMAIN tree'.nodes /\ tree'.nodes[id] = tree.nodes[id]
    /\ \A p \in DOMAIN tree.children :
          LET old == tree.children[p]
              new == getChildren(tree', p)
          IN  /\ \A i \in DOMAIN old : Includes(new, old[i])
              /\ \A i, j \in DOMAIN old :
                    i < j => IndexOf(new, old[i]) < IndexOf(new, old[j])
    /\ \A p \in DOMAIN tree'.children :
          \A i \in DOMAIN tree'.children[p] :
              LET c == tree'.children[p][i]
              IN  Includes(getChildren(tree, p), c) \/ c \notin DOMAIN tree.nodes

\* C4: every step of every tree operation satisfies C4_Step.
C4_HistoryPermanent == [][C4_Step]_vars

\* an older branch has been selected again after a newer sibling was added
C4_Witness ==
    \E p \in DOMAIN tree.children :
        /\ Len(tree.children[p]) >= 2
        /\ activeChildOf(tree, p) = tree.children[p][1]
        /\ tree.headId = tree.children[p][1]

----------------------------------------------------------------------------
(* Properties of the single operations; every input is tried on every
   reachable tree, childId being the id the next makeId() returns *)

Roles == {"user", "assistant", "system"}
Relations == {"reply", "regenerate", "rewrite", "initiate"}
MoveHeadArgs == {"true", "false", "omitted"}

ChildIds(t, p) == {getChildren(t, p)[i] : i \in DOMAIN getChildren(t, p)}

\* the ids reachable from the ids of S through the child lists
RECURSIVE ReachableByChildren(_, _)
ReachableByChildren(t, S) ==
    LET more == S \cup UNION {ChildIds(t, p) : p \in S}
    IN  IF more = S THEN S ELSE ReachableByChildren(t, more)

\* the ids reachable from the ids of S through activeChildByParent
RECURSIVE ReachableByActive(_, _)
ReachableByActive(t, S) ==
    LET more == S \cup ({activeChildOf(t, p) : p \in S} \ {NoId})
    IN  IF more = S THEN S ELSE ReachableByActive(t, more)

\* C5: when no request is in flight, the head path (limit = number of
\* nodes) and the active path are the same sequence of nodes.
C5_PathsConverge ==
    pending = << >> =>
        getPathNodesFromHead(tree, Cardinality(DOMAIN tree.nodes), TRUE)
            = getActivePathNodes(tree, 10000)

\* C6: addChildAndAutoActivate on a known parent creates exactly one node
\* with a fresh id, appends the id at the end of children[parentId], makes it
\* the parent's active child and the head; appendUser then replyAssistant at
\* the new head on a fresh tree gives the chain root -> user -> assistant
\* with the head at the assistant node.
C6_AddChildEffect ==
    \A parentId \in DOMAIN tree.nodes, relation \in Relations, role \in Roles,
       parts \in PartsArgs, state \in StateArgs :
        LET childId == idCount + 1
            args == [parentId |-> parentId, relation |-> relation, role |-> role,
                     parts |-> parts, state |-> state]
            r == addChildAndAutoActivate(tree, args, childId)
        IN  /\ r.ok
            /\ childId \notin DOMAIN tree.nodes
            /\ DOMAIN r.tree.nodes = DOMAIN tree.nodes \cup {childId}
            /\ \A id \in DOMAIN tree.nodes : r.tree.nodes[id] = tree.nodes[id]
            /\ r.tree.nodes[childId].parentId = parentId
            /\ getChildren(r.tree, parentId) = Append(getChildren(tree, parentId), childId)
            /\ Len(getChildren(r.tree, parentId)) = Len(getChildren(tree, parentId)) + 1
            /\ activeChildOf(r.tree, parentId) = childId
            /\ r.tree.headId = childId

IsFreshTree(t) ==
    /\ DOMAIN t.nodes = {t.rootId}
    /\ t.headId = t.rootId
    /\ DOMAIN t.children = {}
    /\ DOMAIN t.activeChildByParent = {}

IsUserAssistantChain(t, userId, assistantId) ==
    /\ DOMAIN t.nodes = {t.rootId, userId, assistantId}
    /\ Cardinality(DOMAIN t.nodes) = 3
    /\ t.nodes[userId].parentId = t.rootId /\ t.nodes[userId].role = "user"
    /\ t.nodes[assistantId].parentId = userId /\ t.nodes[assistantId].role = "assistant"
    /\ getChildren(t, t.rootId) = <<userId>>
    /\ getChildren(t, userId) = <<assistantId>>
    /\ getChildren(t, assistantId) = << >>
    /\ t.headId = assistantId

C6_AppendThenReply ==
    IsFreshTree(tree) =>
        \A text \in Texts, parts \in PartsArgs, state \in StateArgs :
            LET r1 == appendUser(tree, text, idCount + 1)
            IN  /\ r1.ok
                /\ LET r2 == replyAssistant(r1.tree, r1.tree.headId, parts, state, idCount + 2)
                   IN  r2.ok /\ IsUserAssistantChain(r2.tree, idCount + 1, idCount + 2)

\* C6: the effect of addChildAndAutoActivate on every known parent, and the
\* three-node chain built by appendUser then replyAssistant on a fresh tree.
C6_AddChild == C6_AddChildEffect /\ C6_AppendThenReply

\* the three-node chain has been built
C6_Witness == IsUserAssistantChain(tree, 2, 3)

\* C7: regenerateAssistant on a node A with parent P creates a node B with
\* parentId P, role assistant, relation regenerate; getAlternatives(P) lists
\* A before B, headId = B, activeChildByParent[P] = B, and A and every
\* descendant of A stay in nodes, unchanged and reachable through children.
C7_RegenerateNonDestructive ==
    \A A \in NonRootIds(tree), parts \in PartsArgs, state \in StateArgs :
        LET P == tree.nodes[A].parentId
            B == idCount + 1
            r == regenerateAssistant(tree, A, parts, state, B)
        IN  /\ r.ok
            /\ B \in DOMAIN r.tree.nodes
            /\ r.tree.nodes[B] = [id |-> B, relation |-> "regenerate", role |-> "assistant",
                                  parts |-> parts, parentId |-> P, state |-> state]
            /\ LET alts == getAlternatives(r.tree, P)
               IN  /\ alts[Len(alts)].id = B
                   /\ \E i \in DOMAIN alts : i < Len(alts) /\ alts[i].id = A
            /\ r.tree.headId = B
            /\ activeChildOf(r.tree, P) = B
            /\ \A d \in ReachableByChildren(tree, {A}) :
                  /\ d \in DOMAIN r.tree.nodes
                  /\ r.tree.nodes[d] = tree.nodes[d]
                  /\ d \in ReachableByChildren(r.tree, {A})
                  /\ d \in ReachableByChildren(r.tree, {r.tree.rootId})

\* B was regenerated beside a node A that has a child of its own
C7_Witness ==
    \E B \in NonRootIds(tree) :
        /\ tree.nodes[B].relation = "regenerate"
        /\ tree.headId = B
        /\ \E A \in ChildIds(tree, tree.nodes[B].parentId) :
              A < B /\ getChildren(tree, A) # << >>

\* C8: addChildAndAutoActivate with an unknown parentId, and
\* regenerateAssistant, rewriteNode and setActive on the root or on an
\* unknown id, throw and return no tree; a call that threw leaves the
\* caller's tree as it was.
C8_Throws ==
    /\ \A relation \in Relations, role \in Roles, parts \in PartsArgs, state \in StateArgs :
          ~addChildAndAutoActivate(tree,
               [parentId |-> UnknownId, relation |-> relation, role |-> role,
                parts |-> parts, state |-> state], idCount + 1).ok
    /\ \A target \in {tree.rootId, UnknownId} :
          /\ \A parts \in PartsArgs, state \in StateArgs :
                ~regenerateAssistant(tree, target, parts, state, idCount + 1).ok
          /\ \A parts \in PartsArgs :
                ~rewriteNode(tree, target, parts, idCount + 1).ok
          /\ \A moveHead \in MoveHeadArgs :
                ~setActive(tree, target, moveHead).ok

\* C8: the offending calls always throw, and a step in which a call threw
\* leaves the tree (and the ids handed out) as they were.
C8_ErrorsAbort == []C8_Throws /\ [][err' => tree' = tree /\ idCount' = idCount]_vars

\* a call has thrown on a tree that already has branches
C8_Witness == err /\ Len(getChildren(tree, tree.rootId)) >= 2

\* C9: rewriteNode on a non-root target creates a sibling with the target's
\* role, relation rewrite and no state; the target keeps its parts; the new
\* node is the parent's active child and the head.
C9_RewriteEffect ==
    \A target \in NonRootIds(tree), parts \in PartsArgs \cup {TextPart("c")} :
        LET P == tree.nodes[target].parentId
            N == idCount + 1
            r == rewriteNode(tree, target, parts, N)
        IN  /\ r.ok
            /\ DOMAIN r.tree.nodes = DOMAIN tree.nodes \cup {N}
            /\ r.tree.nodes[N] = [id |-> N, relation |-> "rewrite",
                                  role |-> tree.nodes[target].role,
                                  parts |-> parts, parentId |-> P, state |-> NoState]
            /\ r.tree.nodes[target] = tree.nodes[target]
            /\ Includes(getChildren(r.tree, P), target)
            /\ getChildren(r.tree, P)[Len(getChildren(r.tree, P))] = N
            /\ activeChildOf(r.tree, P) = N
            /\ r.tree.headId = N

\* an assistant node that carries a state has been rewritten
C9_Witness ==
    \E N \in NonRootIds(tree) :
        /\ tree.nodes[N].relation = "rewrite"
        /\ tree.nodes[N].role = "assistant"
        /\ \E target \in ChildIds(tree, tree.nodes[N].parentId) :
              /\ target < N
              /\ tree.nodes[target].role = "assistant"
              /\ tree.nodes[target].state # NoState

\* C10: setActive on a non-root target changes activeChildByParent only at
\* the target's parent (set to the target); with moveHead true or omitted
\* headId is the target, with moveHead false headId is the node reached from
\* the root along activeChildByParent that has no active child; nodes and
\* children are unchanged.
C10_SetActiveEffect ==
    \A target \in NonRootIds(tree), moveHead \in MoveHeadArgs :
        LET P == tree.nodes[target].parentId
            r == setActive(tree, target, moveHead)
        IN  /\ r.ok
            /\ DOMAIN r.tree.activeChildByParent = DOMAIN tree.activeChildByParent \cup {P}
            /\ r.tree.activeChildByParent[P] = target
            /\ \A k \in DOMAIN tree.activeChildByParent :
                  k # P => r.tree.activeChildByParent[k] = tree.activeChildByParent[k]
            /\ r.tree.nodes = tree.nodes
            /\ r.tree.children = tree.children
            /\ r.tree.rootId = tree.rootId
            /\ moveHead # "false" => r.tree.headId = target
            /\ moveHead = "false" =>
                  /\ r.tree.headId \in ReachableByActive(r.tree, {r.tree.rootId})
                  /\ activeChildOf(r.tree, r.tree.headId) = NoId

\* an older sibling that has a child was selected with moveHead false: the
\* head is below the selected node
C10_Witness ==
    \E p \in DOMAIN tree.children :
        /\ Len(tree.children[p]) >= 2
        /\ activeChildOf(tree, p) = tree.children[p][1]
        /\ tree.headId \in ChildIds(tree, tree.children[p][1])
        /\ activeChildOf(tree, tree.headId) = NoId
        /\ p = tree.rootId

\* C11: setHead(tree, nodeId) changes headId only: the result has headId =
\* nodeId and the nodes, children, activeChildByParent and rootId of the
\* input tree, for every id a caller can pass.
C11_SetHeadFrame ==
    \A headId \in CallIds :
        LET r == setHead(tree, headId)
        IN  /\ r.headId = headId
            /\ r.nodes = tree.nodes
            /\ r.children = tree.children
            /\ r.activeChildByParent = tree.activeChildByParent
            /\ r.rootId = tree.rootId
            /\ DOMAIN r = DOMAIN tree

\* the head has been put back on the root of a tree that has two branches,
\* one of them selected
C11_Witness ==
    /\ tree.headId = tree.rootId
    /\ Len(getChildren(tree, tree.rootId)) >= 2
    /\ activeChildOf(tree, tree.rootId) # NoId

\* C12: navigateBranch on a node with a parent selects the next (previous)
\* entry of the parent's child list, the last being followed by the first
\* and the first preceded by the last, for every number of siblings; the
\* selected sibling is the parent's active child and the head, nothing else
\* of the tree changes; on the root or an unknown id the tree is unchanged.
C12_NavigateWraps ==
    /\ \A nodeId \in NonRootIds(tree), direction \in Directions :
          LET P == tree.nodes[nodeId].parentId
              siblings == getChildren(tree, P)
              n == Len(siblings)
              i == IndexOf(siblings, nodeId)
              j == IF direction = "next"
                   THEN (IF i = n THEN 1 ELSE i + 1)
                   ELSE (IF i = 1 THEN n ELSE i - 1)
              r == navigateBranch(tree, nodeId, direction)
          IN  /\ Includes(siblings, nodeId)
              /\ r.ok
              /\ activeChildOf(r.tree, P) = siblings[j]
              /\ r.tree.headId = siblings[j]
              /\ DOMAIN r.tree.activeChildByParent = DOMAIN tree.activeChildByParent \cup {P}
              /\ \A k \in DOMAIN tree.activeChildByParent :
                    k # P => r.tree.activeChildByParent[k] = tree.activeChildByParent[k]
              /\ r.tree.nodes = tree.nodes
              /\ r.tree.children = tree.children
              /\ r.tree.rootId = tree.rootId
    /\ \A nodeId \in {tree.rootId, UnknownId}, direction \in Directions :
          navigateBranch(tree, nodeId, direction) = Ok(tree)

\* three siblings, the newest of which was active when it was created: the
\* first one is selected and is the head
C12_Witness ==
    \E p \in DOMAIN tree.children :
        /\ Len(tree.children[p]) >= 3
        /\ activeChildOf(tree, p) = tree.children[p][1]
        /\ tree.headId = tree.children[p][1]

----------------------------------------------------------------------------
(* Properties of the walks *)

\* the values of limit that are tried: none, fewer than, as many as and more
\* than the nodes of the tree
Limits == 0..(MaxNodes + 2)

Min(a, b) == IF a <= b THEN a ELSE b

\* seq is the chain t.rootId, activeChild(rootId), ... up to and including
\* the first node that has no active child
IsActiveChain(t, seq) ==
    /\ Len(seq) >= 1
    /\ seq[1] = t.nodes[t.rootId]
    /\ \A i \in 1..(Len(seq) - 1) :
          /\ activeChildOf(t, seq[i].id) = seq[i + 1].id
          /\ seq[i + 1] = t.nodes[seq[i + 1].id]
    /\ activeChildOf(t, seq[Len(seq)].id) = NoId

\* C13: recalculateHeadId terminates on every reachable tree; the headId it
\* returns is the id of the last node of getActivePathNodes(tree), which is
\* the first node on the active-child chain from the root that has no
\* active child; the rest of the tree is returned as it was.
C13_RecalculateHead ==
    LET r == recalculateHeadId(tree)
        path == getActivePathNodes(tree, 10000)
    IN  /\ recalculateHeadIdTerminates(tree)
        /\ IsActiveChain(tree, path)
        /\ r.headId = path[Len(path)].id
        /\ activeChildOf(tree, r.headId) = NoId
        /\ r.nodes = tree.nodes
        /\ r.children = tree.children
        /\ r.activeChildByParent = tree.activeChildByParent
        /\ r.rootId = tree.rootId

\* the head is the end of an active chain of three nodes, one of which was
\* selected again after a newer sibling had been created
C13_Witness ==
    LET path == getActivePathNodes(tree, 10000)
    IN  /\ Len(path) >= 3
        /\ tree.headId = path[Len(path)].id
        /\ \E i \in 2..Len(path) :
              LET kids == getChildren(tree, path[i].parentId)
              IN  kids[Len(kids)] # path[i].id

\* a malformed tree: the active child of p is c, whatever c is (p itself, an
\* ancestor of p, a node elsewhere, an id without a node)
WithActiveChild(t, p, c) ==
    [t EXCEPT !.activeChildByParent = (p :> c) @@ t.activeChildByParent]

\* C14: getActivePathNodes(tree, limit) returns at most limit nodes on every
\* tree, also on one whose activeChildByParent has a cycle; on a reachable
\* tree it returns the first limit nodes of the chain root,
\* activeChild(root), ..., hence the whole chain when limit is at least its
\* length.
C14_ActivePathBounded ==
    /\ \A limit \in Limits, p \in DOMAIN tree.nodes, c \in CallIds :
          Len(getActivePathNodes(WithActiveChild(tree, p, c), limit)) <= limit
    /\ LET chain == getActivePathNodes(tree, 10000)
       IN  /\ IsActiveChain(tree, chain)
           /\ \A limit \in Limits :
                 LET path == getActivePathNodes(tree, limit)
                 IN  /\ Len(path) = Min(limit, Len(chain))
                     /\ path = SubSeq(chain, 1, Len(path))
                     /\ limit >= Len(chain) => path = chain

\* the active chain has three nodes, and making the root the active child
\* of its end gives a cycle that is walked until the limit stops it
C14_Witness ==
    LET chain == getActivePathNodes(tree, 10000)
    IN  /\ Len(chain) >= 3
        /\ Len(getActivePathNodes(tree, 2)) = 2
        /\ Len(getActivePathNodes(
                  WithActiveChild(tree, chain[Len(chain)].id, tree.rootId),
                  MaxNodes + 2)) = MaxNodes + 2

\* the nodes from the root down to id, following parentId
RECURSIVE ParentChain(_, _)
ParentChain(t, id) ==
    IF t.nodes[id].parentId = NoId THEN <<t.nodes[id]>>
    ELSE Append(ParentChain(t, t.nodes[id].parentId), t.nodes[id])

\* C15: when headId is a node of the tree, getPathNodesFromHead(tree, limit)
\* is the last min(limit, depth(head) + 1) nodes of the parent chain from the
\* root to the head, in root-to-head order: the head is the last element
\* when limit >= 1 and the nodes nearest the root are the ones left out.
\* (The function reads the tree and returns a list; it has no tree result.)
C15_HeadPath ==
    tree.headId \in DOMAIN tree.nodes =>
        \A limit \in Limits, stopAtRoot \in BOOLEAN :
            LET chain == ParentChain(tree, tree.headId)
                n == Len(chain)
                k == Min(limit, n)
                path == getPathNodesFromHead(tree, limit, stopAtRoot)
            IN  /\ chain[1].id = tree.rootId
                /\ chain[n].id = tree.headId
                /\ path = SubSeq(chain, n - k + 1, n)
                /\ limit >= 1 => path[Len(path)].id = tree.headId

\* the head is two levels below the root: with limit 2 the root is left out
C15_Witness ==
    /\ tree.headId \in DOMAIN tree.nodes
    /\ Len(ParentChain(tree, tree.headId)) >= 3
    /\ LET path == getPathNodesFromHead(tree, 2, TRUE)
       IN  Len(path) = 2 /\ path[1].id # tree.rootId /\ path[2].id = tree.headId

----------------------------------------------------------------------------
(* Properties of applyStatePatch: worldState is the result of merging
   lastPatch into prevWorldState *)

EntityIds(state) == {state.entities[i].id : i \in DOMAIN state.entities}

EntityOf(state, id) == MapGet(state.entities, id)

\* the entries of patch.entities of the patch merged last
LastEntityPatches == FieldOrEmpty(lastPatch, "entities")

\* the patch has no other entry for the id of its i-th entry
OnlyEntryForId(entityPatches, i) ==
    \A j \in DOMAIN entityPatches : j # i => entityPatches[j].id # entityPatches[i].id

\* the current list without the strings of remove, followed by the strings
\* of add that are not in it yet
RemoveThenAdd(current, change) ==
    LET kept == IF "remove" \in DOMAIN change
                THEN SelectSeq(current, LAMBDA item : ~Includes(change.remove, item))
                ELSE current
    IN  IF "add" \in DOMAIN change THEN SetAddAll(kept, change.add) ELSE kept

\* C16: for each of facts, hypotheses and secrets the merged list is the
\* current list with every string of remove filtered out, followed by each
\* string of add not already present; a string that is in both remove and
\* add of the patch is in the result.
C16_RemoveBeforeAdd ==
    applied > 0 =>
        \A field \in ListFields \cap DOMAIN lastPatch :
            /\ worldState[field] = RemoveThenAdd(prevWorldState[field], lastPatch[field])
            /\ \A item \in {"f1", "h1", "s1"} :
                  ("add" \in DOMAIN lastPatch[field] /\ Includes(lastPatch[field].add, item))
                      => Includes(worldState[field], item)

\* C17: an entry for an entity id that the current state does not have and
\* that supplies no name creates no entity: the result has no entity with
\* that id.
C17_NamelessNotCreated ==
    applied > 0 =>
        \A i \in DOMAIN LastEntityPatches :
            LET entityPatch == LastEntityPatches[i]
            IN  (/\ OnlyEntryForId(LastEntityPatches, i)
                 /\ entityPatch.id \notin EntityIds(prevWorldState)
                 /\ ~Truthy(entityPatch, "name"))
                    => entityPatch.id \notin EntityIds(worldState)

\* the entities that no entry of the patch names are in the result as they were
OtherEntitiesKept ==
    \A id \in EntityIds(prevWorldState) :
        (\A j \in DOMAIN LastEntityPatches : LastEntityPatches[j].id # id)
            => /\ id \in EntityIds(worldState)
               /\ EntityOf(worldState, id) = EntityOf(prevWorldState, id)

\* C18: an entry with deleted = true (the only entry of the patch for its id)
\* leaves no entity with that id in the result, whatever other fields it
\* carries and whether or not the id was known, and every entity that the
\* patch does not name is unchanged.
C18_DeletedRemoved ==
    applied > 0 =>
        \A i \in DOMAIN LastEntityPatches :
            LET entityPatch == LastEntityPatches[i]
            IN  (OnlyEntryForId(LastEntityPatches, i) /\ IsDeleted(entityPatch))
                    => /\ entityPatch.id \notin EntityIds(worldState)
                       /\ OtherEntitiesKept

\* an entity was deleted by an entry that also carries a condition, another
\* entity is still there
C18_Witness ==
    /\ applied > 0
    /\ \E i \in DOMAIN LastEntityPatches :
          /\ IsDeleted(LastEntityPatches[i])
          /\ "condition" \in DOMAIN LastEntityPatches[i]
          /\ LastEntityPatches[i].id \in EntityIds(prevWorldState)
          /\ LastEntityPatches[i].id \notin EntityIds(worldState)
    /\ EntityIds(worldState) # {}
    /\ EntityIds(worldState) \subseteq EntityIds(prevWorldState)

AttributeKeys(attributes) == {attributes[i].key : i \in DOMAIN attributes}

\* the value of the last attribute of the list that has the key
AttributeValue(attributes, key) ==
    LET at == {i \in DOMAIN attributes : attributes[i].key = key}
    IN  attributes[CHOOSE i \in at : \A j \in at : j <= i].value

\* the single-entry patches that set a scalar field of an entity
ScalarUpdates ==
    {[entities |-> <<[id |-> id, condition |-> c]>>] : id \in {"e1"}, c \in {"Wounded", "Calm"}}
        \cup {[entities |-> <<[id |-> id, activity |-> a]>>] : id \in {"e1"}, a \in {"Fleeing"}}

\* merging p1 and then p2, which set the same field of the same entity,
\* leaves the value of p2
LastAppliedWins ==
    \A p1, p2 \in ScalarUpdates :
        LET e1 == p1.entities[1]
            e2 == p2.entities[1]
            result == applyStatePatch(applyStatePatch(worldState, p1), p2)
        IN  (e1.id = e2.id /\ e1.id \in EntityIds(worldState))
                => \A field \in (DOMAIN e1 \cap DOMAIN e2) \ {"id"} :
                      EntityOf(result, e2.id)[field] = e2[field]

\* C20: an entry without deleted = true for an entity id that the current
\* state has (the only entry of the patch for its id) changes only the
\* fields it supplies: the other scalar fields keep their values, the
\* sub-fields of location that the entry does not supply keep their values,
\* the attributes whose key the entry does not mention keep their values and
\* the mentioned keys get the values of the entry; of two successive patches
\* that set the same field of the same entity the second one decides.
C20_EntityUpdated ==
    /\ LastAppliedWins
    /\ applied > 0 =>
        \A i \in DOMAIN LastEntityPatches :
            LET entityPatch == LastEntityPatches[i]
            IN  (/\ OnlyEntryForId(LastEntityPatches, i)
                 /\ ~IsDeleted(entityPatch)
                 /\ entityPatch.id \in EntityIds(prevWorldState))
                    => /\ entityPatch.id \in EntityIds(worldState)
                       /\ OtherEntitiesKept
                       /\ LET old == EntityOf(prevWorldState, entityPatch.id)
                              new == EntityOf(worldState, entityPatch.id)
                              patchLocation == FieldOrEmpty(entityPatch, "location")
                              patchAttributes == FieldOrEmpty(entityPatch, "attributes")
                          IN  /\ DOMAIN new = DOMAIN old \cup DOMAIN entityPatch
                              /\ \A field \in DOMAIN new \ {"location", "attributes"} :
                                    new[field] = IF field \in DOMAIN entityPatch
                                                 THEN entityPatch[field] ELSE old[field]
                              /\ DOMAIN new.location = DOMAIN old.location \cup DOMAIN patchLocation
                              /\ \A k \in DOMAIN new.location :
                                    new.location[k] = IF k \in DOMAIN patchLocation
                                                      THEN patchLocation[k] ELSE old.location[k]
                              /\ AttributeKeys(new.attributes)
                                    = AttributeKeys(old.attributes) \cup AttributeKeys(patchAttributes)
                              /\ \A key \in AttributeKeys(new.attributes) :
                                    AttributeValue(new.attributes, key)
                                        = IF key \in AttributeKeys(patchAttributes)
                                          THEN AttributeValue(patchAttributes, key)
                                          ELSE AttributeValue(old.attributes, key)
                              /\ Len(new.attributes) = Cardinality(AttributeKeys(new.attributes))

\* the second of two patches has changed the condition of an entity and has
\* left its attribute, set by the first, and its location as they were
C20_Witness ==
    /\ applied = 2
    /\ \E i \in DOMAIN LastEntityPatches :
          LET entityPatch == LastEntityPatches[i]
          IN  /\ ~IsDeleted(entityPatch)
              /\ "condition" \in DOMAIN entityPatch
              /\ "attributes" \notin DOMAIN entityPatch
              /\ entityPatch.id \in EntityIds(prevWorldState)
              /\ entityPatch.id \in EntityIds(worldState)
              /\ LET old == EntityOf(prevWorldState, entityPatch.id)
                     new == EntityOf(worldState, entityPatch.id)
                 IN  /\ old.condition # entityPatch.condition
                     /\ new.condition = entityPatch.condition
                     /\ Len(old.attributes) >= 1
                     /\ new.attributes = old.attributes
                     /\ new.location = old.location

----------------------------------------------------------------------------
(* Properties of the merge of the player, of attributes, quests and threads *)

Elements(list) == {list[i] : i \in DOMAIN list}

\* C21: the inventory and the capabilities of the player are merged as sets,
\* removal first: the result holds the current items that are not in remove
\* and the items of add, each exactly once; an item that is in both remove
\* and add is in the result.
C21_SetsRemoveFirst ==
    (applied > 0 /\ "player" \in DOMAIN lastPatch) =>
        \A field \in {"inventory", "capabilities"} \cap DOMAIN lastPatch.player :
            LET change == lastPatch.player[field]
                remove == Elements(FieldOrEmpty(change, "remove"))
                add == Elements(FieldOrEmpty(change, "add"))
                old == prevWorldState.player[field]
                new == worldState.player[field]
            IN  /\ Elements(new) = (Elements(old) \ remove) \cup add
                /\ NoDuplicates(new)
                /\ \A item \in remove \cap add : Includes(new, item)

\* the key, which the inventory held, was removed and added by one patch and
\* is in the inventory once
C21_Witness ==
    /\ applied > 0
    /\ "player" \in DOMAIN lastPatch
    /\ "inventory" \in DOMAIN lastPatch.player
    /\ Includes(prevWorldState.player.inventory, "key")
    /\ Includes(FieldOrEmpty(lastPatch.player.inventory, "remove"), "key")
    /\ Includes(FieldOrEmpty(lastPatch.player.inventory, "add"), "key")
    /\ Cardinality({i \in DOMAIN worldState.player.inventory :
                       worldState.player.inventory[i] = "key"}) = 1

\* new is old with patchAttributes upserted by key: every attribute of the
\* patch is in new and new has no other value for a key of the patch; the
\* attributes of old whose key the patch does not mention are in new with
\* their values and in their order; the attributes of the patch come after them
UpsertedByKey(old, patchAttributes, new) ==
    LET mentioned == AttributeKeys(patchAttributes)
        Unmentioned(a) == a.key \notin mentioned
    IN  /\ \A i \in DOMAIN patchAttributes : \E j \in DOMAIN new : new[j] = patchAttributes[i]
        /\ \A j \in DOMAIN new :
              new[j].key \in mentioned => new[j] \in Elements(patchAttributes)
        /\ SelectSeq(new, Unmentioned) = SelectSeq(old, Unmentioned)
        /\ \A i, j \in DOMAIN new :
              (new[i].key \notin mentioned /\ new[j].key \in mentioned) => i < j

\* C22: the attributes of the player and of an entity are upserted by key.
\* For the player the merge is that of patch.player.attributes; for an
\* entity it is that of the attributes of the patch's only entry for the id
\* of the entity, into the attributes the entity had (none for a new entity).
C22_AttributesUpserted ==
    applied > 0 =>
        /\ ("player" \in DOMAIN lastPatch /\ "attributes" \in DOMAIN lastPatch.player)
              => UpsertedByKey(prevWorldState.player.attributes,
                               lastPatch.player.attributes,
                               worldState.player.attributes)
        /\ \A i \in DOMAIN LastEntityPatches :
              LET entityPatch == LastEntityPatches[i]
              IN  (/\ OnlyEntryForId(LastEntityPatches, i)
                   /\ ~IsDeleted(entityPatch)
                   /\ "attributes" \in DOMAIN entityPatch)
                      => UpsertedByKey(
                             IF entityPatch.id \in EntityIds(prevWorldState)
                             THEN EntityOf(prevWorldState, entityPatch.id).attributes
                             ELSE << >>,
                             entityPatch.attributes,
                             EntityOf(worldState, entityPatch.id).attributes)

\* an entity that had two attributes got a new value for one of them: the
\* other one is kept and comes first
C22_Witness ==
    /\ applied > 0
    /\ \E i \in DOMAIN LastEntityPatches :
          LET entityPatch == LastEntityPatches[i]
          IN  /\ "attributes" \in DOMAIN entityPatch
              /\ entityPatch.id \in EntityIds(prevWorldState)
              /\ entityPatch.id \in EntityIds(worldState)
              /\ LET old == EntityOf(prevWorldState, entityPatch.id).attributes
                     new == EntityOf(worldState, entityPatch.id).attributes
                 IN  /\ Len(old) = 2
                     /\ Len(entityPatch.attributes) = 1
                     /\ entityPatch.attributes[1].key \in AttributeKeys(old)
                     /\ entityPatch.attributes[1] \notin Elements(old)
                     /\ Len(new) = 2
                     /\ new[1] \in Elements(old)
                     /\ new[2] = entityPatch.attributes[1]

QuestIds(state) == {state.quests[i].id : i \in DOMAIN state.quests}

QuestOf(state, id) == MapGet(state.quests, id)

ThreadIds(state) == {state.threads[i].id : i \in DOMAIN state.threads}

\* the entries of patch.quests and patch.threads of the patch merged last
LastQuestPatches == FieldOrEmpty(lastPatch, "quests")

LastThreadPatches == FieldOrEmpty(lastPatch, "threads")

\* C23: an entry for a quest id that the current state has (the only entry
\* of the patch for that id) that supplies steps, the empty list included,
\* makes the supplied list the steps of the quest; an entry without steps
\* leaves the steps as they were; in both cases the other fields of the
\* entry overwrite and the fields the entry does not supply are kept.
C23_StepsReplaced ==
    applied > 0 =>
        \A i \in DOMAIN LastQuestPatches :
            LET q == LastQuestPatches[i]
            IN  (OnlyEntryForId(LastQuestPatches, i) /\ q.id \in QuestIds(prevWorldState))
                    => /\ q.id \in QuestIds(worldState)
                       /\ LET old == QuestOf(prevWorldState, q.id)
                              new == QuestOf(worldState, q.id)
                          IN  /\ DOMAIN new = DOMAIN old \cup DOMAIN q
                              /\ "steps" \in DOMAIN q => new.steps = q.steps
                              /\ ("steps" \notin DOMAIN q /\ "steps" \in DOMAIN old)
                                    => new.steps = old.steps
                              /\ \A field \in DOMAIN new \ {"steps"} :
                                    new[field] = IF field \in DOMAIN q THEN q[field] ELSE old[field]

\* a quest that had steps got the empty list of steps and a new label, its
\* status is kept
C23_Witness ==
    /\ applied > 0
    /\ \E i \in DOMAIN LastQuestPatches :
          LET q == LastQuestPatches[i]
          IN  /\ "steps" \in DOMAIN q
              /\ q.steps = << >>
              /\ q.id \in QuestIds(prevWorldState)
              /\ q.id \in QuestIds(worldState)
              /\ Len(QuestOf(prevWorldState, q.id).steps) > 0
              /\ QuestOf(worldState, q.id).steps = << >>
              /\ QuestOf(worldState, q.id).label = q.label
              /\ QuestOf(worldState, q.id).label # QuestOf(prevWorldState, q.id).label
              /\ QuestOf(worldState, q.id).status = QuestOf(prevWorldState, q.id).status

\* C24: an entry for a quest id that the current state does not have and that
\* lacks label or status inserts no quest, an entry for an unknown thread id
\* that lacks description inserts no thread (each the only entry of the
\* patch for its id); the quests and threads that such a patch does not name
\* are as they were and the merge does not throw.
C24_InvalidNewSkipped ==
    applied > 0 =>
        /\ ~applyStatePatchThrows(prevWorldState, lastPatch)
        /\ \A i \in DOMAIN LastQuestPatches :
              LET q == LastQuestPatches[i]
              IN  (/\ OnlyEntryForId(LastQuestPatches, i)
                   /\ q.id \notin QuestIds(prevWorldState)
                   /\ ~(Truthy(q, "label") /\ Truthy(q, "status")))
                      => /\ q.id \notin QuestIds(worldState)
                         /\ Len(LastQuestPatches) = 1 => worldState.quests = prevWorldState.quests
                         /\ "threads" \notin DOMAIN lastPatch
                               => worldState.threads = prevWorldState.threads
        /\ \A i \in DOMAIN LastThreadPatches :
              LET t == LastThreadPatches[i]
              IN  (/\ OnlyEntryForId(LastThreadPatches, i)
                   /\ t.id \notin ThreadIds(prevWorldState)
                   /\ ~Truthy(t, "description"))
                      => /\ t.id \notin ThreadIds(worldState)
                         /\ Len(LastThreadPatches) = 1 => worldState.threads = prevWorldState.threads
                         /\ "quests" \notin DOMAIN lastPatch
                               => worldState.quests = prevWorldState.quests

\* an entry for an unknown thread without description was merged into a state
\* that has a quest and a thread: both lists are as they were
C24_Witness ==
    /\ applied > 0
    /\ Len(LastThreadPatches) = 1
    /\ LastThreadPatches[1].id \notin ThreadIds(prevWorldState)
    /\ "description" \notin DOMAIN LastThreadPatches[1]
    /\ Len(prevWorldState.threads) + Len(prevWorldState.quests) > 0
    /\ worldState.threads = prevWorldState.threads
    /\ worldState.quests = prevWorldState.quests

----------------------------------------------------------------------------
(* Properties of applyStatePatch as a whole *)

\* C25: a top-level field of the state whose field of the patch is omitted
\* is untouched; the patch without fields gives a state equal to the current
\* one; a scene patch sets the scene fields it supplies, keeps the others,
\* and merges location sub-field by sub-field.
C25_OmittedUntouched ==
    /\ applyStatePatch(worldState, << >>) = worldState
    /\ applied > 0 =>
          /\ DOMAIN worldState = DOMAIN prevWorldState
          /\ \A field \in DOMAIN prevWorldState \ DOMAIN lastPatch :
                worldState[field] = prevWorldState[field]
          /\ "scene" \in DOMAIN lastPatch =>
                LET old == prevWorldState.scene
                    new == worldState.scene
                    patchScene == lastPatch.scene
                    patchLocation == FieldOrEmpty(patchScene, "location")
                IN  /\ DOMAIN new = DOMAIN old \cup DOMAIN patchScene
                    /\ \A k \in DOMAIN new \ {"location"} :
                          new[k] = IF k \in DOMAIN patchScene THEN patchScene[k] ELSE old[k]
                    /\ DOMAIN new.location = DOMAIN old.location \cup DOMAIN patchLocation
                    /\ \A k \in DOMAIN new.location :
                          new.location[k] = IF k \in DOMAIN patchLocation
                                            THEN patchLocation[k] ELSE old.location[k]

\* a scene patch without atmosphere and without location.detail was merged
\* into a scene that had both: they are kept, the time is the new one, and
\* the player and the entities are as they were
C25_Witness ==
    /\ applied > 0
    /\ DOMAIN lastPatch = {"scene"}
    /\ "atmosphere" \in DOMAIN prevWorldState.scene
    /\ "detail" \in DOMAIN prevWorldState.scene.location
    /\ "atmosphere" \notin DOMAIN lastPatch.scene
    /\ "detail" \notin DOMAIN lastPatch.scene.location
    /\ worldState.scene.time = lastPatch.scene.time
    /\ worldState.scene.time # prevWorldState.scene.time
    /\ worldState.scene.atmosphere = prevWorldState.scene.atmosphere
    /\ worldState.scene.location.detail = prevWorldState.scene.location.detail
    /\ worldState.player = prevWorldState.player
    /\ worldState.entities = prevWorldState.entities

\* C26: for the patch merged last, p1, and every patch p2 that has no
\* top-level field in common with it, merging p1 and then p2, merging p2 and
\* then p1, and merging the patch that has the fields of both give the same
\* state.
C26_DisjointCommute ==
    applied > 0 =>
        \A p2 \in AllPatches :
            DOMAIN p2 \cap DOMAIN lastPatch = {} =>
                LET p1ThenP2 == applyStatePatch(worldState, p2)
                    p2ThenP1 == applyStatePatch(applyStatePatch(prevWorldState, p2), lastPatch)
                    together == applyStatePatch(prevWorldState, Spread(lastPatch, p2))
                IN  /\ p1ThenP2 = p2ThenP1
                    /\ p1ThenP2 = together

\* a scene patch has changed the state, and a facts patch and a player patch
\* would each change it further
C26_Witness ==
    /\ applied > 0
    /\ DOMAIN lastPatch = {"scene"}
    /\ worldState # prevWorldState
    /\ \E p2 \in ListPatches :
          /\ DOMAIN p2 = {"facts"}
          /\ applyStatePatch(worldState, p2).facts # worldState.facts
    /\ \E p2 \in PlayerPatches :
          applyStatePatch(worldState, p2).player # worldState.player

Occurrences(list, item) == Cardinality({i \in DOMAIN list : list[i] = item})

C28_AlwaysSucceeds ==
    /\ \A patch \in AllPatches :
          /\ ~applyStatePatchThrows(worldState, patch)
          /\ DOMAIN applyStatePatch(worldState, patch) = DOMAIN DEFAULT_WORLD_STATE
    /\ applied > 0 => ~applyStatePatchThrows(prevWorldState, lastPatch)
    /\ \A i \in DOMAIN worldState.entities :
          {"id", "name", "location", "condition", "activity", "relationToPlayer", "attributes"}
              \subseteq DOMAIN worldState.entities[i]

\* a patch with an entity entry for an unknown id that has no name was
\* merged, and a quest entry without status can be merged next
C28_Witness ==
    /\ applied > 0
    /\ \E i \in DOMAIN LastEntityPatches :
          /\ "name" \notin DOMAIN LastEntityPatches[i]
          /\ ~IsDeleted(LastEntityPatches[i])
          /\ LastEntityPatches[i].id \notin EntityIds(prevWorldState)
    /\ DOMAIN worldState = DOMAIN DEFAULT_WORLD_STATE
    /\ \E patch \in QuestPatches :
          /\ "status" \notin DOMAIN patch.quests[1]
          /\ patch.quests[1].id \notin QuestIds(worldState)
          /\ applyStatePatch(worldState, patch) = worldState

----------------------------------------------------------------------------
(* Properties of the store actions *)

\* the state of the nearest proper ancestor of the node that has a state
\* attached, the default world state when no ancestor has one
BaseStateOf(t, id) ==
    LET chain == ParentChain(t, id)
        carriers == {i \in 1..(Len(chain) - 1) : chain[i].state # NoState}
    IN  IF carriers = {} THEN DEFAULT_WORLD_STATE
        ELSE chain[CHOOSE i \in carriers : \A j \in carriers : j <= i].state

\* the states a node may carry: its base state, or its base state with the
\* patch of a reply merged into it
ReplyStatesOf(t, id) ==
    {IF data.statePatch = NoPatch THEN BaseStateOf(t, id)
     ELSE applyStatePatch(BaseStateOf(t, id), data.statePatch) : data \in ReplyData}

NewNodeIds == DOMAIN tree'.nodes \ DOMAIN tree.nodes

\* every assistant node that a step adds to the tree of the store carries
\* one of its reply states
C29_EveryAssistantStep ==
    \A id \in NewNodeIds :
        tree'.nodes[id].role = "assistant"
            => tree'.nodes[id].state \in ReplyStatesOf(tree', id)

\* C29 as stated: every assistant node created by sendMessage, regenerate
\* and editMessage carries applyStatePatch(B, patch), or B when the reply has
\* no patch, B being the state of its nearest proper ancestor with a state,
\* or the default world state.
C29_EveryAssistantNode == [][C29_EveryAssistantStep]_vars

\* every node that a step adds for the answer of a generation request (an
\* assistant node with relation reply or regenerate) carries one of its
\* reply states
C29_ReplyStep ==
    \A id \in NewNodeIds :
        (tree'.nodes[id].role = "assistant" /\ tree'.nodes[id].relation \in {"reply", "regenerate"})
            => tree'.nodes[id].state \in ReplyStatesOf(tree', id)

\* C29, amended: every assistant node that sendMessage, regenerate and
\* editMessage create for the answer of a generation request carries
\* applyStatePatch(B, patch), or B when the reply has no patch, B being the
\* state of the nearest proper ancestor of the node that has a state, or the
\* default world state; the state of a sibling is never the base.
C29_ReplyNodeState == [][C29_ReplyStep]_vars

\* the reply to the second user message carries the facts of the first
\* reply, found two nodes up, with the fact of its own patch merged in
C29_Witness ==
    \E id \in DOMAIN tree.nodes :
        /\ tree.nodes[id].role = "assistant"
        /\ tree.nodes[id].relation = "reply"
        /\ tree.nodes[tree.nodes[id].parentId].state = NoState
        /\ tree.nodes[id].state # NoState
        /\ tree.nodes[id].state.facts = <<"f1", "f2">>
        /\ BaseStateOf(tree, id).facts = <<"f1">>

\* a step in which the i-th request in flight ends without a new node: its
\* fetch has failed
FailsAt(i) == pending' = RemoveAt(pending, i) /\ idCount' = idCount

C30_Step ==
    \A i \in DOMAIN pending :
        (FailsAt(i) /\ pending[i].kind \in {"send", "edit"}) =>
            LET userId == pending[i].targetId
            IN  /\ tree' = tree
                /\ isGenerating' = FALSE
                /\ tree = pending[i].tree =>
                      /\ userId \in DOMAIN tree'.nodes
                      /\ tree'.nodes[userId].role = "user"
                      /\ tree'.headId = userId
                      /\ getChildren(tree', userId) = << >>
                      /\ \A id \in DOMAIN tree'.nodes : tree'.nodes[id].parentId # userId

\* C30: the step in which the request of sendMessage, or of editMessage on a
\* user node, fails leaves the tree of the store as it is and sets
\* isGenerating to false; when the tree is still the one the handler stored
\* before the request, the user node it appended is in the tree, is the head
\* and has no child.
C30_FailureKeepsUserNode == [][C30_Step]_vars

\* the request of the first sendMessage has failed: the tree is the root and
\* the user node, which is the head and has no reply, and nothing is in flight
C30_Witness ==
    /\ idCount = 2
    /\ pending = << >>
    /\ isGenerating = FALSE
    /\ DOMAIN tree.nodes = {1, 2}
    /\ tree.nodes[2].role = "user"
    /\ tree.headId = 2
    /\ getChildren(tree, 2) = << >>

\* the i-th request in flight ends with its answer attached as a new node
SucceedsAt(i) == pending' = RemoveAt(pending, i) /\ idCount' = idCount + 1

C31_Step ==
    /\ Regenerate =>
          /\ tree' = tree
          /\ pending' # pending =>
                /\ Len(pending') = Len(pending) + 1
                /\ pending'[Len(pending')].kind = "regenerate"
                /\ pending'[Len(pending')].tree = tree
          /\ pending' = pending => UNCHANGED <<idCount, isGenerating>>
    /\ \A i \in DOMAIN pending :
          pending[i].kind = "regenerate" =>
            /\ FailsAt(i) => tree' = tree
            /\ SucceedsAt(i) =>
                  LET req == pending[i]
                      new == idCount'
                  IN  /\ DOMAIN tree'.nodes = DOMAIN req.tree.nodes \cup {new}
                      /\ tree'.nodes[new].role = "assistant"
                      /\ tree'.nodes[new].relation = "regenerate"
                      /\ tree'.nodes[new].parentId = req.tree.nodes[req.targetId].parentId
                      /\ tree'.headId = new
                      /\ \A id \in DOMAIN req.tree.nodes : tree'.nodes[id] = req.tree.nodes[id]

\* C31: regenerate never stores the tree whose head it rewound for the
\* request: a regenerate call leaves the tree of the store as it is, on a
\* missing or non-assistant node it changes nothing at all, the request it
\* starts holds the tree of the store, a failing regenerate request leaves
\* the tree as it is, and a succeeding one stores the captured tree with the
\* new sibling of the target added and made the head.
C31_RewindNotCommitted == [][C31_Step]_vars

\* a regenerate request is in flight and the store still has the tree from
\* before the call, its head on the assistant node and not on the parent
C31_Witness ==
    \E i \in DOMAIN pending :
        /\ pending[i].kind = "regenerate"
        /\ pending[i].tree = tree
        /\ tree.headId = pending[i].targetId
        /\ tree.nodes[tree.headId].role = "assistant"
        /\ isGenerating = TRUE

\* C37: in every tree made from createEmptyTree by the tree operations a
\* parent has an active child exactly when its list of children is not
\* empty, the active child is one of these children, and the node that
\* recalculateHeadId selects has no children.
C37_ActiveIffChildren ==
    /\ \A p \in DOMAIN tree.nodes \cup DOMAIN tree.children \cup DOMAIN tree.activeChildByParent :
          /\ p \in DOMAIN tree.activeChildByParent <=> getChildren(tree, p) # << >>
          /\ p \in DOMAIN tree.activeChildByParent =>
                Includes(getChildren(tree, p), tree.activeChildByParent[p])
    /\ getChildren(tree, recalculateHeadId(tree).headId) = << >>

\* a parent has two children and the older one was selected again; the
\* head is on another node than the leaf recalculateHeadId selects
C37_Witness ==
    /\ \E p \in DOMAIN tree.activeChildByParent :
          /\ Len(getChildren(tree, p)) >= 2
          /\ tree.activeChildByParent[p] = getChildren(tree, p)[1]
    /\ recalculateHeadId(tree).headId # tree.headId
    /\ getChildren(tree, tree.headId) # << >>

----------------------------------------------------------------------------
(* Properties of the store under interleaved actions *)

\* no node id leaves the tree of the store
NodesKept == DOMAIN tree.nodes \subseteq DOMAIN tree'.nodes

\* the answer of a request changes the active child of no parent but the one
\* it is attached under
SelectionKept ==
    \A i \in DOMAIN pending :
        SucceedsAt(i) =>
            \A p \in DOMAIN tree.nodes :
                (p \in DOMAIN tree'.nodes /\ p # tree'.nodes[idCount'].parentId) =>
                    activeChildOf(tree', p) = activeChildOf(tree, p)

C32_Step == NodesKept /\ SelectionKept

\* C32: under every interleaving of sendMessage, regenerate, editMessage and
\* navigateBranch the tree of the store only grows: every node id of the
\* tree is in the tree after the next step, and the branch selected while a
\* request was in flight is still the active one after the request has
\* completed.
C32_TreeOnlyGrows == [][C32_Step]_vars

\* C33: isGenerating is true in every state in which at least one generation
\* request started by sendMessage, regenerate or editMessage is in flight.
C33_GeneratingWhileInFlight == pending # << >> => isGenerating = TRUE

\* C34: when every request eventually resolves or rejects, isGenerating set
\* to true by sendMessage, regenerate or editMessage is eventually false
\* again, whether the request succeeds or fails.
C34_EventuallyIdle == (isGenerating = TRUE) ~> (isGenerating = FALSE)

\* a request has been answered and its reply is the head: isGenerating is
\* false again and nothing is in flight
C34_Witness ==
    /\ isGenerating = FALSE
    /\ pending = << >>
    /\ tree.nodes[tree.headId].role = "assistant"
    /\ tree.nodes[tree.headId].relation \in {"reply", "regenerate"}

\* C35: whenever a session is open the tree of the store has the root of
\* that session, and the file saved under a session id holds a tree with the
\* root of that session.
C35_TreeOfItsSession ==
    /\ currentSessionId # NoSession => tree.rootId = RootIdOf(currentSessionId)
    /\ \A sessionId \in SessionIds : saved[sessionId].tree.rootId = RootIdOf(sessionId)

\* the ids of the events a chronicle accounts for: those in its events and
\* those in the eventIds of its chapters
AccountedEvents(c) ==
    IF c = NoChronicle THEN {}
    ELSE {c.events[i].id : i \in DOMAIN c.events}
         \cup UNION {{c.chapters[i].eventIds[j] : j \in DOMAIN c.chapters[i].eventIds} :
                        i \in DOMAIN c.chapters}

ChapterIds(c) ==
    IF c = NoChronicle THEN {} ELSE {c.chapters[i].id : i \in DOMAIN c.chapters}

C36_Step ==
    /\ AccountedEvents(chronicle) \subseteq AccountedEvents(chronicle')
    /\ ChapterIds(chronicle) \subseteq ChapterIds(chronicle')

\* C36: no event of the chronicle is lost and no chapter disappears: after
\* every step each event that was in chronicle.events or in the eventIds of
\* a chapter is still in one of the two, and each chapter is still there.
C36_NoEventLost == [][C36_Step]_vars

----------------------------------------------------------------------------
(* Further properties of applyStatePatch *)

\* no string twice in facts, hypotheses and secrets, no id twice in
\* entities, quests and threads
DuplicateFree(state) ==
    /\ \A field \in ListFields : NoDuplicates(state[field])
    /\ \A field \in {"entities", "quests", "threads"} :
          NoDuplicates([i \in DOMAIN state[field] |-> state[field][i].id])

\* C38: applyStatePatch keeps the collections free of duplicates: when the
\* state a patch was merged into had no repeated string in facts,
\* hypotheses and secrets and no repeated id in entities, quests and
\* threads, the result has none, also for a patch whose add list repeats a
\* string or whose entry list repeats an id.
C38_DuplicateFree ==
    (applied > 0 /\ DuplicateFree(prevWorldState)) => DuplicateFree(worldState)

\* C39: applyStatePatch is idempotent for a whole patch: merging a patch
\* into the result of merging it gives that result again, also for patches
\* that create entities with empty or missing name, condition, activity or
\* relationToPlayer.
C39_PatchIdempotent ==
    \A patch \in AllPatches :
        applyStatePatch(applyStatePatch(worldState, patch), patch)
            = applyStatePatch(worldState, patch)

====
